---- MODULE Spec2Model ----
(***************************************************************************)
(* Production orchestration and resumable job tracking of veo-generators   *)
(* (src/api/main.py and the services it calls).                            *)
(*                                                                         *)
(* The document store holds one document per production (scenes embedded)  *)
(* and one per upload record (compressed variants embedded).  Every        *)
(* endpoint is a sequence of store reads, store writes and collaborator    *)
(* calls; requests may be served by different instances, so the steps of   *)
(* two requests interleave at every store access and collaborator call.    *)
(* A request occupies a slot of reqs from its first step to its response.  *)
(***************************************************************************)
EXTENDS Naturals, Sequences, FiniteSets, TLC

VARIABLES
    productions,   \* document store: productions collection, id = index
    uploads,       \* document store: uploads collection, id = index
    videoOps,      \* generative provider: video operations, handle = index
    jobs,          \* transcoding provider: jobs, job name = index
    reqs,          \* requests being served, per slot
    resp,          \* the response sent by the last step, if any
    analyses,      \* analyses completed (scene ids already generated)
    sent,          \* requests the client has sent
    now,           \* the clock, in minutes
    services,      \* the collaborators the startup has initialised
    moments        \* key-moments documents, by id

vars ==
    <<productions, uploads, videoOps, jobs, reqs, resp, analyses, sent, now,
      services, moments>>

(***************************************************************************)
(* Bounds of the model.                                                    *)
(***************************************************************************)
MaxJobs == 2           \* transcoder jobs a client's requests create
MaxOps == 2            \* video operations a client's requests start
MaxScenes == 2         \* scenes an analysis returns
MaxAnalyses == 1       \* analyses of the production
MaxRequests == 5       \* requests a client sends one after the other
MaxRaceRequests == 3   \* requests of clients that do not wait for each other
ScenarioScenes == 3    \* scenes of the production of the end-to-end scenario
AnalysisCost == 10     \* cost of the analysis of a brief, thousandths of a dollar
UsageAnalyses == 2      \* analyses of the production whose usage is followed
UsageRequests == 4      \* requests of the client whose usage is followed

Slots == {"a", "b"}   \* two requests can be in flight at once

(***************************************************************************)
(* Values.                                                                 *)
(***************************************************************************)
NoUrl == [scheme |-> "none", ref |-> 0]
GsUrl(n) == [scheme |-> "gs", ref |-> n]
HttpUrl(n) == [scheme |-> "https", ref |-> n]

\* str.startswith("gs://") on an Optional[str]
IsGs(u) == u.scheme = "gs"
\* truthiness of an Optional[str]
Truthy(u) == u.scheme # "none"

NoScenes == << >>

\* costs, in thousandths of a dollar: UsageMetrics.cost_usd of a generated
\* frame, and the price of a second of generated video
FrameCost == 134
VeoCostPerSecond == 400
\* veo_duration = max(4, min(8, ...)), 8 when the timestamps do not parse
VeoMinSeconds == 4
VeoMaxSeconds == 8
VeoCost(veo_duration) == veo_duration * VeoCostPerSecond

\* Scene(...) as analyze_brief builds it: all optional fields at their defaults
NewScene(sid) ==
    [id |-> sid, status |-> "pending", operation_name |-> 0,
     video_url |-> NoUrl, error_message |-> ""]

\* the document of a production that does not exist (get_production -> None)
NoProduction ==
    [exists |-> FALSE, status |-> "draft", scenes |-> NoScenes,
     stitch_job_name |-> 0, final_video_url |-> NoUrl, error_message |-> "",
     total_usage |-> 0, signed_urls |-> << >>, archived |-> FALSE]

\* Project(...) with its defaults, as create_production stores it
DraftProduction == [NoProduction EXCEPT !.exists = TRUE]

NoUpload ==
    [exists |-> FALSE, file_type |-> "other", compressed_variants |-> << >>,
     parent_upload_id |-> 0, gcs_uri |-> << >>, resolution_label |-> "",
     file_size_bytes |-> 0, signed_urls |-> << >>]

\* UploadRecord(...) as upload_asset stores it; sizes are 0, of an object that
\* is empty or not there, or 1, of an object with content
NewUpload(ft) ==
    [NoUpload EXCEPT !.exists = TRUE, !.file_type = ft, !.gcs_uri = <<"upload">>,
                     !.file_size_bytes = 1]

\* firestore_svc.get_production / get_upload_record
GetProduction(id) ==
    IF id \in 1..Len(productions) THEN productions[id] ELSE NoProduction
GetUpload(id) ==
    IF id \in 1..Len(uploads) THEN uploads[id] ELSE NoUpload

(***************************************************************************)
(* Requests.                                                               *)
(***************************************************************************)
\* a slot with no request in it; the other fields are the locals of the
\* handler that runs in the slot
IdleReq ==
    [kind |-> "idle", pc |-> "done", id |-> 0, sid |-> 0, name |-> 0,
     resolution |-> "",
     snap |-> NoScenes, us |-> NoScenes, i |-> 0, job |-> 0,
     variants |-> << >>, updated |-> FALSE,
     outcome |-> "", uri |-> NoUrl, usage |-> 0,
     archived |-> FALSE, docs |-> << >>, calls |-> << >>, wrote |-> {},
     at |-> 0, body |-> << >>]

Free(r) == reqs[r].pc = "done"

NewReq(kind, id) == [IdleReq EXCEPT !.kind = kind, !.id = id, !.pc = "run"]

\* no response sent yet
NoResponse ==
    [kind |-> "none", code |-> 0, detail |-> "", scene |-> 0, job |-> 0,
     body |-> << >>]

\* an HTTP response of endpoint kind: status code and body
Response(kind, code, detail) ==
    [NoResponse EXCEPT !.kind = kind, !.code = code, !.detail = detail]

(***************************************************************************)
(* Transcoding provider.                                                   *)
(***************************************************************************)
\* TranscoderService.compress_video: the output location of a variant
CompressOutput(upload_id, resolution) == <<"compressed", upload_id, resolution>>

\* TranscoderService.get_job_status: the job's state, or UNKNOWN when the
\* lookup raises
JobStatusResults(j) ==
    IF j \in 1..Len(jobs) THEN {jobs[j].state, "UNKNOWN"} ELSE {"UNKNOWN"}

\* a running job reaches a terminal state
TranscoderFinish(j, st) ==
    /\ j \in 1..Len(jobs)
    /\ jobs[j].state = "RUNNING"
    /\ jobs' = [jobs EXCEPT ![j].state = st]
    /\ resp' = NoResponse
    /\ UNCHANGED <<productions, uploads, videoOps, reqs, analyses>>

(***************************************************************************)
(* POST /uploads/{record_id}/compress                                      *)
(***************************************************************************)
\* compress_upload looking for variants already processing only, so that
\* a succeeded variant is compressed again
VariantLiveProcessing(record, resolution) ==
    \E k \in 1..Len(record.compressed_variants) :
        /\ record.compressed_variants[k].resolution = resolution
        /\ record.compressed_variants[k].status = "processing"

\* the loop in compress_upload that looks for a live variant
VariantLive(record, resolution) ==
    \E k \in 1..Len(record.compressed_variants) :
        /\ record.compressed_variants[k].resolution = resolution
        /\ record.compressed_variants[k].status \in {"processing", "succeeded"}

\* the checks of compress_upload before it dispatches: the response, code 0
\* when the request goes on
CompressCheck(record, resolution) ==
    IF ~record.exists THEN Response("compress", 404, "Upload not found")
    ELSE IF record.file_type # "video"
        THEN Response("compress", 400, "Only video files can be compressed")
    ELSE IF resolution \notin {"480p", "720p"}
        THEN Response("compress", 400, "Resolution must be '480p' or '720p'")
    ELSE IF VariantLive(record, resolution)
        THEN Response("compress", 400, "variant already processing or succeeded")
    ELSE NoResponse

\* a variant list to which the new variant is added, the failed one kept
UpdatedVariantsKeepingFailed(variants, resolution, job_name, output_uri) ==
    Append(variants,
           [resolution |-> resolution, gcs_uri |-> output_uri,
            job_name |-> job_name, status |-> "processing",
            child_upload_id |-> 0])

\* the variant list compress_upload writes: the variants of other resolutions
\* as read, then the new one
UpdatedVariants(variants, resolution, job_name, output_uri) ==
    LET keep(v) == v.resolution # resolution
    IN  Append(SelectSeq(variants, keep),
               [resolution |-> resolution, gcs_uri |-> output_uri,
                job_name |-> job_name, status |-> "processing",
                child_upload_id |-> 0])

CompressBegin(r, id, resolution) ==
    /\ Free(r)
    /\ LET record == GetUpload(id)
           chk == CompressCheck(record, resolution)
           q == [NewReq("compress", id) EXCEPT !.resolution = resolution]
       IN  IF chk.code # 0
           THEN /\ resp' = chk
                /\ reqs' = [reqs EXCEPT ![r] = IdleReq]
           ELSE /\ resp' = NoResponse
                /\ reqs' = [reqs EXCEPT ![r] =
                        [q EXCEPT !.pc = "c_dispatch",
                                  !.variants = record.compressed_variants]]
    /\ UNCHANGED <<productions, uploads, videoOps, jobs, analyses>>

\* transcoder_svc.compress_video creates the job
CompressDispatch(r) ==
    /\ reqs[r].pc = "c_dispatch"
    /\ jobs' = Append(jobs, [kind |-> "compress", state |-> "RUNNING",
                             target |-> reqs[r].id, inputs |-> << >>,
                             edit_list |-> << >>,
                             output_uri |-> CompressOutput(reqs[r].id,
                                                           reqs[r].resolution),
                             resolution |-> reqs[r].resolution])
    /\ reqs' = [reqs EXCEPT ![r].pc = "c_persist", ![r].job = Len(jobs) + 1]
    /\ resp' = NoResponse
    /\ UNCHANGED <<productions, uploads, videoOps, analyses>>

\* transcoder_svc.compress_video raises: the except clause answers 500
CompressDispatchFails(r) ==
    /\ reqs[r].pc = "c_dispatch"
    /\ resp' = Response("compress", 500, "compress_video raised")
    /\ reqs' = [reqs EXCEPT ![r] = IdleReq]
    /\ UNCHANGED <<productions, uploads, videoOps, jobs, analyses>>

CompressPersist(r) ==
    /\ reqs[r].pc = "c_persist"
    /\ LET q == reqs[r]
       IN  /\ uploads' = [uploads EXCEPT ![q.id].compressed_variants =
                    UpdatedVariants(q.variants, q.resolution, q.job,
                                    CompressOutput(q.id, q.resolution))]
           /\ resp' = [Response("compress", 200, "processing") EXCEPT !.job = q.job]
    /\ reqs' = [reqs EXCEPT ![r] = IdleReq]
    /\ UNCHANGED <<productions, videoOps, jobs, analyses>>

(***************************************************************************)
(* GET /uploads/{record_id}/compress-status                                *)
(***************************************************************************)
\* index of the first variant from k on that the loop polls, Len + 1 if none
RECURSIVE NextPolled(_, _)
NextPolled(variants, k) ==
    IF k > Len(variants) THEN k
    ELSE IF variants[k].status = "processing" /\ variants[k].job_name # 0 THEN k
    ELSE NextPolled(variants, k + 1)

\* the loop body for a polled variant: the variant afterwards, given the job
\* state and the id a child record would get
ResolveVariant(v, job_state, child_id) ==
    IF job_state = "SUCCEEDED"
    THEN [v EXCEPT !.status = "succeeded",
                   !.child_upload_id =
                       IF v.child_upload_id = 0 THEN child_id ELSE @]
    ELSE IF job_state \in {"FAILED", "UNKNOWN"}
    THEN [v EXCEPT !.status = "failed"]
    ELSE v

\* the loop body creates a child record for this variant
CreatesChild(v, job_state) ==
    job_state = "SUCCEEDED" /\ v.child_upload_id = 0

\* the UploadRecord created for a succeeded variant
ChildUpload(parent_id, v) ==
    [NoUpload EXCEPT !.exists = TRUE, !.file_type = "video",
                     !.gcs_uri = v.gcs_uri, !.parent_upload_id = parent_id,
                     !.resolution_label = v.resolution,
                     !.file_size_bytes =
                         IF "storage" \in services THEN 1 ELSE 0]

CompressStatusBegin(r, id) ==
    /\ Free(r)
    /\ LET record == GetUpload(id)
           q == NewReq("compress_status", id)
           first == NextPolled(record.compressed_variants, 1)
       IN  IF ~record.exists
           THEN /\ resp' = Response("compress_status", 404, "Upload not found")
                /\ reqs' = [reqs EXCEPT ![r] = IdleReq]
           ELSE IF first > Len(record.compressed_variants)
           THEN /\ resp' = Response("compress_status", 200, "variants")
                /\ reqs' = [reqs EXCEPT ![r] = IdleReq]
           ELSE /\ resp' = NoResponse
                /\ reqs' = [reqs EXCEPT ![r] =
                        [q EXCEPT !.pc = "cs_poll", !.i = first,
                                  !.variants = record.compressed_variants]]
    /\ UNCHANGED <<productions, uploads, videoOps, jobs, analyses>>

\* the loop body for variant i: get_job_status, and the child record when the
\* job succeeded; after the last polled variant the list is written back
CompressStatusPoll(r, job_state) ==
    /\ reqs[r].pc = "cs_poll"
    /\ LET q == reqs[r]
           v == q.variants[q.i]
           w == ResolveVariant(v, job_state, Len(uploads) + 1)
           variants == [q.variants EXCEPT ![q.i] = w]
           updated == q.updated \/ w # v
           next == NextPolled(variants, q.i + 1)
           last == next > Len(variants)
           created == IF CreatesChild(v, job_state)
                      THEN Append(uploads, ChildUpload(q.id, v))
                      ELSE uploads
       IN  /\ job_state \in JobStatusResults(v.job_name)
           /\ uploads' =
                IF last /\ updated
                THEN [created EXCEPT ![q.id].compressed_variants = variants]
                ELSE created
           /\ resp' = IF last THEN Response("compress_status", 200, "variants")
                      ELSE NoResponse
           /\ reqs' = [reqs EXCEPT ![r] =
                IF last THEN IdleReq
                ELSE [q EXCEPT !.variants = variants, !.updated = updated,
                               !.i = next]]
    /\ UNCHANGED <<productions, videoOps, jobs, analyses>>

(***************************************************************************)
(* Document store: partial updates of a production.                        *)
(***************************************************************************)
\* an update that appends to the error message instead of replacing it, so
\* that a second update differs from the first
MergeAppending(doc, updates) ==
    [f \in DOMAIN doc |->
        IF f \notin DOMAIN updates THEN doc[f]
        ELSE IF f = "error_message" THEN doc[f] \o updates[f]
        ELSE updates[f]]

\* dict.update(updates) on a scene or production document
Merge(doc, updates) ==
    [f \in DOMAIN doc |-> IF f \in DOMAIN updates THEN updates[f] ELSE doc[f]]

\* the scenes list FirestoreService.update_scene writes, from the list it read
UpdateScene(scenes, scene_id, updates) ==
    [k \in 1..Len(scenes) |->
        IF scenes[k].id = scene_id THEN Merge(scenes[k], updates) ELSE scenes[k]]

\* FirestoreService.update_production on the stored documents
UpdateProduction(id, updates) ==
    [productions EXCEPT ![id] = Merge(@, updates)]

\* _accumulate_cost that writes the cost and forgets the total it read
AccumulatedCostAlone(current, cost_usd) == cost_usd

\* _accumulate_cost: the total_usage it writes, from the one it read
AccumulatedCost(current, cost_usd) == current + cost_usd

\* _accumulate_cost reads the production: the request keeps the total it read
AccumulateRead(r, pc) ==
    reqs' = [reqs EXCEPT ![r].pc = pc,
                         ![r].usage = GetProduction(reqs[r].id).total_usage]

\* _accumulate_cost writes the total: the productions afterwards
AccumulateWrite(r, cost_usd) ==
    UpdateProduction(reqs[r].id,
        [total_usage |-> AccumulatedCost(reqs[r].usage, cost_usd)])

\* next((s for s in production.scenes if s.id == scene_id), None) is not None
HasScene(scenes, scene_id) ==
    \E k \in 1..Len(scenes) : scenes[k].id = scene_id

(***************************************************************************)
(* Generative provider: video operations.                                  *)
(***************************************************************************)
\* what VideoService.get_video_generation_status returns for an operation,
\* and what it returns when the lookup raises; VideoStatusResults: what it
\* can return for a handle
VideoStatusOf(op) ==
    IF op.state = "failed" THEN [status |-> "failed", video_uri |-> NoUrl]
    ELSE IF op.state = "video" THEN [status |-> "completed", video_uri |-> op.uri]
    ELSE IF op.state = "novideo" THEN [status |-> "completed", video_uri |-> NoUrl]
    ELSE [status |-> "processing", video_uri |-> NoUrl]

VideoStatusError == [status |-> "error", video_uri |-> NoUrl]

VideoStatusResults(name) ==
    {VideoStatusError} \cup
    IF name \notin 1..Len(videoOps) THEN {} ELSE {VideoStatusOf(videoOps[name])}

\* how an operation can end: with a video (at a durable or another URI), with
\* no video, or with an error
VideoOutcomes(h) ==
    {[state |-> "video", uri |-> GsUrl(h)], [state |-> "video", uri |-> HttpUrl(h)],
     [state |-> "novideo", uri |-> NoUrl], [state |-> "failed", uri |-> NoUrl]}

\* a running operation ends
VideoFinish(h, outcome) ==
    /\ h \in 1..Len(videoOps)
    /\ videoOps[h].state = "running"
    /\ outcome \in VideoOutcomes(h)
    /\ videoOps' = [videoOps EXCEPT ![h].state = outcome.state,
                                    ![h].uri = outcome.uri]
    /\ resp' = NoResponse
    /\ UNCHANGED <<productions, uploads, jobs, reqs, analyses>>

\* video_client.models.generate_videos: the operation started for a scene
NewOperation(scene_id) ==
    [state |-> "running", uri |-> NoUrl, scene |-> scene_id]

(***************************************************************************)
(* POST /productions/{id}/analyze                                          *)
(***************************************************************************)
\* the scenes analyze_brief returns: n new Scene objects with fresh ids
AnalyzedScenes(n) ==
    [k \in 1..n |-> NewScene(analyses * MaxScenes + k)]

\* analyses that have begun and not finished
Analyzing == Cardinality({r \in Slots : reqs[r].pc = "a_call"})

AnalyzeBegin(r, id) ==
    /\ Free(r)
    /\ IF ~GetProduction(id).exists
       THEN /\ resp' = Response("analyze", 404, "")
            /\ UNCHANGED <<productions, reqs>>
       ELSE /\ productions' = UpdateProduction(id, [status |-> "analyzing"])
            /\ reqs' = [reqs EXCEPT ![r] =
                    [NewReq("analyze", id) EXCEPT !.pc = "a_call"]]
            /\ resp' = NoResponse
    /\ UNCHANGED <<uploads, videoOps, jobs, analyses>>

\* analyze_brief returned n scenes and its usage: they replace the scenes and
\* the total_usage of the production
AnalyzeFinish(r, n, cost_usd) ==
    /\ reqs[r].pc = "a_call"
    /\ productions' = UpdateProduction(reqs[r].id,
            [scenes |-> AnalyzedScenes(n), status |-> "scripted",
             total_usage |-> cost_usd])
    /\ analyses' = analyses + 1
    /\ resp' = Response("analyze", 200, "scripted")
    /\ reqs' = [reqs EXCEPT ![r] = IdleReq]
    /\ UNCHANGED <<uploads, videoOps, jobs>>

\* analyze_brief raised: nothing catches it
AnalyzeFails(r) ==
    /\ reqs[r].pc = "a_call"
    /\ resp' = Response("analyze", 500, "analyze_brief raised")
    /\ reqs' = [reqs EXCEPT ![r] = IdleReq]
    /\ UNCHANGED <<productions, uploads, videoOps, jobs, analyses>>

(***************************************************************************)
(* POST /productions/{id}/render and the background process_render_kickoff *)
(***************************************************************************)
\* the scene already holds a durable video: kickoff skips it
HasDurableVideo(scene) == Truthy(scene.video_url) /\ IsGs(scene.video_url)

\* index of the first scene from k on for which the kickoff loop touches the
\* store, Len + 1 if none: a skipped scene already completed is passed over
RECURSIVE KickNext(_, _)
KickNext(scenes, k) ==
    IF k > Len(scenes) THEN k
    ELSE IF HasDurableVideo(scenes[k]) /\ scenes[k].status = "completed"
        THEN KickNext(scenes, k + 1)
    ELSE k

\* the first update_scene of the loop body for a scene
KickoffMark(scene) ==
    IF HasDurableVideo(scene) THEN [status |-> "completed"]
    ELSE [status |-> "generating"]

\* a kickoff that writes the prompts only and leaves the handle out
KickoffResultPrompts(operation_name) == << >>

\* the scene_updates built from the result of generate_scene_video
KickoffResult(operation_name) ==
    IF operation_name # 0 THEN [operation_name |-> operation_name]
    ELSE << >>

\* the slot after the loop body of scene i: at the next scene, or finished
KickoffAdvance(q) ==
    LET next == KickNext(q.snap, q.i + 1)
    IN  IF next > Len(q.snap) THEN IdleReq
        ELSE [q EXCEPT !.pc = "k_mark_read", !.i = next, !.job = 0,
                       !.us = NoScenes]

\* start_render: update_production raises for a missing document; otherwise
\* the response is sent and the kickoff runs in the background
StartRender(r, id) ==
    /\ Free(r)
    /\ IF ~GetProduction(id).exists
       THEN /\ resp' = Response("render", 500, "update of a missing document")
            /\ UNCHANGED <<productions, reqs>>
       ELSE /\ productions' = UpdateProduction(id, [status |-> "generating"])
            /\ resp' = Response("render", 200, "started")
            /\ reqs' = [reqs EXCEPT ![r] =
                    [NewReq("render", id) EXCEPT !.pc = "k_read"]]
    /\ UNCHANGED <<uploads, videoOps, jobs, analyses>>

\* process_render_kickoff returns when a service it needs is missing;
\* otherwise it reads the production
KickoffRead(r) ==
    /\ reqs[r].pc = "k_read"
    /\ LET p == GetProduction(reqs[r].id)
           q == [reqs[r] EXCEPT !.snap = p.scenes, !.i = 0]
       IN  reqs' = [reqs EXCEPT ![r] =
                IF ~({"firestore", "video"} \subseteq services) \/ ~p.exists
                THEN IdleReq ELSE KickoffAdvance(q)]
    /\ resp' = NoResponse
    /\ UNCHANGED <<productions, uploads, videoOps, jobs, analyses>>

\* update_scene of the status: its read
KickoffMarkRead(r) ==
    /\ reqs[r].pc = "k_mark_read"
    /\ reqs' = [reqs EXCEPT ![r].pc = "k_mark_write",
                            ![r].us = GetProduction(reqs[r].id).scenes]
    /\ resp' = NoResponse
    /\ UNCHANGED <<productions, uploads, videoOps, jobs, analyses>>

\* update_scene of the status: its write
KickoffMarkWrite(r) ==
    /\ reqs[r].pc = "k_mark_write"
    /\ LET q == reqs[r]
           scene == q.snap[q.i]
       IN  /\ productions' = UpdateProduction(q.id,
                    [scenes |-> UpdateScene(q.us, scene.id, KickoffMark(scene))])
           /\ reqs' = [reqs EXCEPT ![r] =
                    IF HasDurableVideo(scene) THEN KickoffAdvance(q)
                    ELSE [q EXCEPT !.pc = "k_generate", !.us = NoScenes]]
    /\ resp' = NoResponse
    /\ UNCHANGED <<uploads, videoOps, jobs, analyses>>

\* generate_scene_video starts the operation; update_scene of the result reads
KickoffGenerate(r) ==
    /\ reqs[r].pc = "k_generate"
    /\ LET q == reqs[r]
       IN  /\ videoOps' = Append(videoOps, NewOperation(q.snap[q.i].id))
           /\ reqs' = [reqs EXCEPT ![r].pc = "k_op_write",
                                   ![r].job = Len(videoOps) + 1,
                                   ![r].us = GetProduction(q.id).scenes]
    /\ resp' = NoResponse
    /\ UNCHANGED <<productions, uploads, jobs, analyses>>

\* generate_scene_video raises: the except clause fails the production and
\* the loop ends
KickoffGenerateFails(r) ==
    /\ reqs[r].pc = "k_generate"
    /\ productions' = UpdateProduction(reqs[r].id,
            [status |-> "failed", error_message |-> "render kickoff raised"])
    /\ reqs' = [reqs EXCEPT ![r] = IdleReq]
    /\ resp' = NoResponse
    /\ UNCHANGED <<uploads, videoOps, jobs, analyses>>

\* update_scene of the result: its write
KickoffOpWrite(r) ==
    /\ reqs[r].pc = "k_op_write"
    /\ LET q == reqs[r]
           scene == q.snap[q.i]
       IN  /\ productions' = UpdateProduction(q.id,
                    [scenes |-> UpdateScene(q.us, scene.id, KickoffResult(q.job))])
           /\ reqs' = [reqs EXCEPT ![r] = KickoffAdvance(q)]
    /\ resp' = NoResponse
    /\ UNCHANGED <<uploads, videoOps, jobs, analyses>>

(***************************************************************************)
(* POST /productions/{id}/scenes/{scene_id}/frame                          *)
(***************************************************************************)
\* the scene fields generate_scene_frame writes for a generated frame: the
\* thumbnail and the prompts, none of them a field of the model
FrameResultUpdates == << >>

\* the scene fields generate_scene_frame writes when generate_frame raised
FrameFailureUpdates ==
    [status |-> "failed", error_message |-> "generate_frame raised"]

FrameBegin(r, id, scene_id) ==
    /\ Free(r)
    /\ LET p == GetProduction(id)
       IN  IF ~p.exists \/ ~HasScene(p.scenes, scene_id)
           THEN /\ resp' = Response("frame", 404, "")
                /\ reqs' = reqs
           ELSE /\ resp' = NoResponse
                /\ reqs' = [reqs EXCEPT ![r] =
                        [NewReq("frame", id) EXCEPT !.pc = "f_call",
                                                    !.sid = scene_id]]
    /\ UNCHANGED <<productions, uploads, videoOps, jobs, analyses>>

\* ai_svc.generate_frame returned; update_scene of the result reads
FrameGenerate(r) ==
    /\ reqs[r].pc = "f_call"
    /\ reqs' = [reqs EXCEPT ![r].pc = "f_write",
                            ![r].us = GetProduction(reqs[r].id).scenes]
    /\ resp' = NoResponse
    /\ UNCHANGED <<productions, uploads, videoOps, jobs, analyses>>

\* update_scene of the result writes
FrameWrite(r) ==
    /\ reqs[r].pc = "f_write"
    /\ LET q == reqs[r]
       IN  productions' = UpdateProduction(q.id,
                [scenes |-> UpdateScene(q.us, q.sid, FrameResultUpdates)])
    /\ reqs' = [reqs EXCEPT ![r].pc = "f_cost_read", ![r].us = NoScenes]
    /\ resp' = NoResponse
    /\ UNCHANGED <<uploads, videoOps, jobs, analyses>>

\* _accumulate_cost of the frame: its read
FrameCostRead(r) ==
    /\ reqs[r].pc = "f_cost_read"
    /\ AccumulateRead(r, "f_cost_write")
    /\ resp' = NoResponse
    /\ UNCHANGED <<productions, uploads, videoOps, jobs, analyses>>

\* _accumulate_cost of the frame: its write, and the response
FrameCostWrite(r) ==
    /\ reqs[r].pc = "f_cost_write"
    /\ productions' = AccumulateWrite(r, FrameCost)
    /\ resp' = [Response("frame", 200, "image") EXCEPT !.scene = reqs[r].sid]
    /\ reqs' = [reqs EXCEPT ![r] = IdleReq]
    /\ UNCHANGED <<uploads, videoOps, jobs, analyses>>

\* ai_svc.generate_frame raised: the except clause; update_scene reads
FrameGenerateFails(r) ==
    /\ reqs[r].pc = "f_call"
    /\ reqs' = [reqs EXCEPT ![r].pc = "f_fail_scene",
                            ![r].us = GetProduction(reqs[r].id).scenes]
    /\ resp' = NoResponse
    /\ UNCHANGED <<productions, uploads, videoOps, jobs, analyses>>

\* the except clause: update_scene writes the failed scene
FrameFailScene(r) ==
    /\ reqs[r].pc = "f_fail_scene"
    /\ LET q == reqs[r]
       IN  productions' = UpdateProduction(q.id,
                [scenes |-> UpdateScene(q.us, q.sid, FrameFailureUpdates)])
    /\ reqs' = [reqs EXCEPT ![r].pc = "f_fail_production", ![r].us = NoScenes]
    /\ resp' = NoResponse
    /\ UNCHANGED <<uploads, videoOps, jobs, analyses>>

\* the except clause: update_production(status failed), and the answer 500
FrameFailProduction(r) ==
    /\ reqs[r].pc = "f_fail_production"
    /\ productions' = UpdateProduction(reqs[r].id,
            [status |-> "failed",
             error_message |-> "Image generation failed for scene"])
    /\ resp' = [Response("frame", 500, "Image generation failed for scene")
                    EXCEPT !.scene = reqs[r].sid]
    /\ reqs' = [reqs EXCEPT ![r] = IdleReq]
    /\ UNCHANGED <<uploads, videoOps, jobs, analyses>>

(***************************************************************************)
(* POST /productions/{id}/scenes/{scene_id}/video                          *)
(***************************************************************************)
\* the scene fields generate_scene_video (the endpoint) writes once the
\* operation has started: the prompts only
VideoResultUpdates(operation_name) == << >>

VideoBegin(r, id, scene_id) ==
    /\ Free(r)
    /\ LET p == GetProduction(id)
       IN  IF ~p.exists \/ ~HasScene(p.scenes, scene_id)
           THEN /\ resp' = Response("video", 404, "")
                /\ reqs' = reqs
           ELSE /\ resp' = NoResponse
                /\ reqs' = [reqs EXCEPT ![r] =
                        [NewReq("video", id) EXCEPT !.pc = "v_mark_read",
                                                    !.sid = scene_id]]
    /\ UNCHANGED <<productions, uploads, videoOps, jobs, analyses>>

\* update_scene(status generating): its read
VideoMarkRead(r) ==
    /\ reqs[r].pc = "v_mark_read"
    /\ reqs' = [reqs EXCEPT ![r].pc = "v_mark_write",
                            ![r].us = GetProduction(reqs[r].id).scenes]
    /\ resp' = NoResponse
    /\ UNCHANGED <<productions, uploads, videoOps, jobs, analyses>>

\* update_scene(status generating): its write
VideoMarkWrite(r) ==
    /\ reqs[r].pc = "v_mark_write"
    /\ LET q == reqs[r]
       IN  productions' = UpdateProduction(q.id,
                [scenes |-> UpdateScene(q.us, q.sid, [status |-> "generating"])])
    /\ reqs' = [reqs EXCEPT ![r].pc = "v_generate", ![r].us = NoScenes]
    /\ resp' = NoResponse
    /\ UNCHANGED <<uploads, videoOps, jobs, analyses>>

\* video_svc.generate_scene_video starts the operation
VideoGenerate(r) ==
    /\ reqs[r].pc = "v_generate"
    /\ videoOps' = Append(videoOps, NewOperation(reqs[r].sid))
    /\ reqs' = [reqs EXCEPT ![r].pc = "v_cost_read", ![r].job = Len(videoOps) + 1]
    /\ resp' = NoResponse
    /\ UNCHANGED <<productions, uploads, jobs, analyses>>

\* video_svc.generate_scene_video raises: nothing catches it
VideoGenerateFails(r) ==
    /\ reqs[r].pc = "v_generate"
    /\ resp' = Response("video", 500, "generate_scene_video raised")
    /\ reqs' = [reqs EXCEPT ![r] = IdleReq]
    /\ UNCHANGED <<productions, uploads, videoOps, jobs, analyses>>

\* _accumulate_cost of the video: its read
VideoCostRead(r) ==
    /\ reqs[r].pc = "v_cost_read"
    /\ AccumulateRead(r, "v_cost_write")
    /\ resp' = NoResponse
    /\ UNCHANGED <<productions, uploads, videoOps, jobs, analyses>>

\* _accumulate_cost of the video, veo_duration seconds long: its write
VideoCostWrite(r, veo_duration) ==
    /\ reqs[r].pc = "v_cost_write"
    /\ productions' = AccumulateWrite(r, VeoCost(veo_duration))
    /\ reqs' = [reqs EXCEPT ![r].pc = "v_prompt_read"]
    /\ resp' = NoResponse
    /\ UNCHANGED <<uploads, videoOps, jobs, analyses>>

\* update_scene(generated_prompt, video_prompt): its read
VideoPromptRead(r) ==
    /\ reqs[r].pc = "v_prompt_read"
    /\ reqs' = [reqs EXCEPT ![r].pc = "v_prompt_write",
                            ![r].us = GetProduction(reqs[r].id).scenes]
    /\ resp' = NoResponse
    /\ UNCHANGED <<productions, uploads, videoOps, jobs, analyses>>

\* update_scene(generated_prompt, video_prompt): its write; the response
\* carries the operation name
VideoPromptWrite(r) ==
    /\ reqs[r].pc = "v_prompt_write"
    /\ LET q == reqs[r]
       IN  /\ productions' = UpdateProduction(q.id,
                    [scenes |-> UpdateScene(q.us, q.sid, VideoResultUpdates(q.job))])
           /\ resp' = [Response("video", 200, "processing") EXCEPT
                            !.job = q.job, !.scene = q.sid]
    /\ reqs' = [reqs EXCEPT ![r] = IdleReq]
    /\ UNCHANGED <<uploads, videoOps, jobs, analyses>>

(***************************************************************************)
(* GET /diagnostics/operations/{name}?production_id=&scene_id=             *)
(* production_id and scene_id 0: not given.                                *)
(***************************************************************************)
\* a poll that persists a completed operation whether or not it has a
\* video, so that a scene is completed without one
PersistsVideoOrNone(status, production_id, scene_id) ==
    /\ status.status = "completed"
    /\ production_id # 0 /\ scene_id # 0

\* the poll found a video to persist on the scene
PersistsVideo(status, production_id, scene_id) ==
    /\ status.status = "completed" /\ Truthy(status.video_uri)
    /\ production_id # 0 /\ scene_id # 0

\* the poll found a failure to persist
PersistsFailure(status, production_id) ==
    /\ ~(status.status = "completed" /\ Truthy(status.video_uri))
    /\ status.status \in {"failed", "error"}
    /\ production_id # 0

\* the poll writes the scene
WritesScene(status, production_id, scene_id) ==
    \/ PersistsVideo(status, production_id, scene_id)
    \/ PersistsFailure(status, production_id) /\ scene_id # 0

\* the update_production of check_operation_status for a failure
PollProductionUpdates ==
    [status |-> "failed", error_message |-> "Video generation failed for scene"]

\* a poll that fails the scene and leaves its error_message as it was
PollSceneUpdatesStatusOnly(status) ==
    IF status.status = "completed"
    THEN [status |-> "completed", video_url |-> status.video_uri]
    ELSE [status |-> "failed"]

\* the update_scene of check_operation_status for the polled status
PollSceneUpdates(status) ==
    IF status.status = "completed"
    THEN [status |-> "completed", video_url |-> status.video_uri]
    ELSE [status |-> "failed", error_message |-> "Video generation failed"]

\* get_video_generation_status, then the read of the first store update
OpStatusPoll(r, name, production_id, scene_id, status) ==
    /\ Free(r)
    /\ status \in VideoStatusResults(name)
    /\ LET p == GetProduction(production_id)
           q == [NewReq("op_status", production_id) EXCEPT
                    !.sid = scene_id, !.name = name,
                    !.outcome = status.status, !.uri = status.video_uri,
                    !.us = p.scenes]
           answer == Response("op_status", 200, status.status)
       IN  IF WritesScene(status, production_id, scene_id) /\ p.exists
           THEN /\ reqs' = [reqs EXCEPT ![r] = [q EXCEPT !.pc = "o_scene_write"]]
                /\ resp' = NoResponse
                /\ UNCHANGED <<productions>>
           ELSE IF PersistsFailure(status, production_id)
           THEN IF p.exists
                THEN /\ productions' = UpdateProduction(production_id,
                            PollProductionUpdates)
                     /\ resp' = answer
                     /\ reqs' = reqs
                ELSE /\ resp' = Response("op_status", 500,
                                         "update of a missing document")
                     /\ UNCHANGED <<productions, reqs>>
           ELSE /\ resp' = answer
                /\ UNCHANGED <<productions, reqs>>
    /\ UNCHANGED <<uploads, videoOps, jobs, analyses>>

\* the write of update_scene
OpStatusSceneWrite(r) ==
    /\ reqs[r].pc = "o_scene_write"
    /\ LET q == reqs[r]
           status == [status |-> q.outcome, video_uri |-> q.uri]
       IN  /\ productions' = UpdateProduction(q.id,
                    [scenes |-> UpdateScene(q.us, q.sid, PollSceneUpdates(status))])
           /\ IF q.outcome = "completed"
              THEN /\ resp' = Response("op_status", 200, q.outcome)
                   /\ reqs' = [reqs EXCEPT ![r] = IdleReq]
              ELSE /\ resp' = NoResponse
                   /\ reqs' = [reqs EXCEPT ![r].pc = "o_fail_production",
                                           ![r].us = NoScenes]
    /\ UNCHANGED <<uploads, videoOps, jobs, analyses>>

\* update_production(status failed) after the scene has been failed
OpStatusFailProduction(r) ==
    /\ reqs[r].pc = "o_fail_production"
    /\ productions' = UpdateProduction(reqs[r].id, PollProductionUpdates)
    /\ resp' = Response("op_status", 200, reqs[r].outcome)
    /\ reqs' = [reqs EXCEPT ![r] = IdleReq]
    /\ UNCHANGED <<uploads, videoOps, jobs, analyses>>

(***************************************************************************)
(* POST /productions/{id}/stitch                                           *)
(***************************************************************************)
\* a stitch that takes any video_url for a durable one, so that a
\* scene with a signed https url is stitched
RECURSIVE FirstWithoutUrl(_, _)
FirstWithoutUrl(scenes, k) ==
    IF k > Len(scenes) THEN 0
    ELSE IF ~Truthy(scenes[k].video_url) THEN k
    ELSE FirstWithoutUrl(scenes, k + 1)

\* index of the first scene without a durable video, 0 if every scene has one
RECURSIVE FirstNotReady(_, _)
FirstNotReady(scenes, k) ==
    IF k > Len(scenes) THEN 0
    ELSE IF ~Truthy(scenes[k].video_url) \/ ~IsGs(scenes[k].video_url) THEN k
    ELSE FirstNotReady(scenes, k + 1)

\* scene_uris collected from the last scene to the first
SceneUrisReversed(scenes) ==
    [k \in 1..Len(scenes) |-> scenes[Len(scenes) + 1 - k].video_url]

\* scene_uris: the video_url of every scene, in order
SceneUris(scenes) == [k \in 1..Len(scenes) |-> scenes[k].video_url]

\* TranscoderService.stitch_from_uris: the location of the stitched video
FinalUri(production_id) == GsUrl(production_id)

\* TranscoderService.stitch_from_uris: job.output_uri, the directory the
\* transcoder writes the stitched video to
StitchOutputUri(production_id) == <<"productions", production_id, "stitched">>

\* TranscoderService.stitch_from_uris: edit_list, one atom per uri, atom i
\* playing the input of key i from its start; the inputs of the job are the
\* uris in order, the input of key i at position i + 1
EditList(scene_uris) ==
    [a \in 1..Len(scene_uris) |-> [key |-> a - 1, inputs |-> <<a - 1>>]]

StitchBegin(r, id) ==
    /\ Free(r)
    /\ LET p == GetProduction(id)
           bad == FirstNotReady(p.scenes, 1)
       IN  IF ~p.exists
           THEN /\ resp' = Response("stitch", 404, "")
                /\ reqs' = reqs
           ELSE IF bad # 0
           THEN /\ resp' = [Response("stitch", 400, "Scene does not have a video yet")
                                EXCEPT !.scene = p.scenes[bad].id]
                /\ reqs' = reqs
           ELSE /\ resp' = NoResponse
                /\ reqs' = [reqs EXCEPT ![r] =
                        [NewReq("stitch", id) EXCEPT !.pc = "s_mark",
                                                     !.snap = p.scenes]]
    /\ UNCHANGED <<productions, uploads, videoOps, jobs, analyses>>

\* update_production(status stitching)
StitchMark(r) ==
    /\ reqs[r].pc = "s_mark"
    /\ productions' = UpdateProduction(reqs[r].id, [status |-> "stitching"])
    /\ reqs' = [reqs EXCEPT ![r].pc = "s_dispatch"]
    /\ resp' = NoResponse
    /\ UNCHANGED <<uploads, videoOps, jobs, analyses>>

\* transcoder_svc.stitch_from_uris creates the job
StitchDispatch(r) ==
    /\ reqs[r].pc = "s_dispatch"
    /\ jobs' = Append(jobs, [kind |-> "stitch", state |-> "RUNNING",
                             target |-> reqs[r].id,
                             inputs |-> SceneUris(reqs[r].snap),
                             edit_list |-> EditList(SceneUris(reqs[r].snap)),
                             output_uri |-> StitchOutputUri(reqs[r].id),
                             resolution |-> ""])
    /\ reqs' = [reqs EXCEPT ![r].pc = "s_persist", ![r].job = Len(jobs) + 1]
    /\ resp' = NoResponse
    /\ UNCHANGED <<productions, uploads, videoOps, analyses>>

\* transcoder_svc.stitch_from_uris raises: the except clause fails the
\* production and answers 500
StitchDispatchFails(r) ==
    /\ reqs[r].pc = "s_dispatch"
    /\ productions' = UpdateProduction(reqs[r].id,
            [status |-> "failed", error_message |-> "stitch_from_uris raised"])
    /\ resp' = Response("stitch", 500, "stitch_from_uris raised")
    /\ reqs' = [reqs EXCEPT ![r] = IdleReq]
    /\ UNCHANGED <<uploads, videoOps, jobs, analyses>>

\* update_production(stitch_job_name, final_video_url)
StitchPersist(r) ==
    /\ reqs[r].pc = "s_persist"
    /\ LET q == reqs[r]
       IN  /\ productions' = UpdateProduction(q.id,
                    [stitch_job_name |-> q.job, final_video_url |-> FinalUri(q.id)])
           /\ resp' = [Response("stitch", 200, "stitching") EXCEPT !.job = q.job]
    /\ reqs' = [reqs EXCEPT ![r] = IdleReq]
    /\ UNCHANGED <<uploads, videoOps, jobs, analyses>>

(***************************************************************************)
(* GET /productions/{id}/stitch-status                                     *)
(***************************************************************************)
\* the update get_stitch_status makes for a job state, << >> for none
StitchResolution(job_state) ==
    IF job_state = "SUCCEEDED" THEN [status |-> "completed"]
    ELSE IF job_state \in {"FAILED", "UNKNOWN"}
    THEN [status |-> "failed",
          error_message |-> "Transcoder job " \o job_state]
    ELSE << >>

\* the status in the body of the answer of get_stitch_status
StitchAnswer(job_state) ==
    IF job_state = "SUCCEEDED" THEN "completed"
    ELSE IF job_state \in {"FAILED", "UNKNOWN"} THEN "failed"
    ELSE "stitching"

StitchStatusBegin(r, id) ==
    /\ Free(r)
    /\ LET p == GetProduction(id)
       IN  IF ~p.exists
           THEN /\ resp' = Response("stitch_status", 404, "")
                /\ reqs' = reqs
           ELSE IF p.stitch_job_name = 0
           THEN /\ resp' = Response("stitch_status", 200, p.status)
                /\ reqs' = reqs
           ELSE /\ resp' = NoResponse
                /\ reqs' = [reqs EXCEPT ![r] =
                        [NewReq("stitch_status", id) EXCEPT
                            !.pc = "ss_poll", !.job = p.stitch_job_name]]
    /\ UNCHANGED <<productions, uploads, videoOps, jobs, analyses>>

\* get_job_status, then the update for the state it returned
StitchStatusPoll(r, job_state) ==
    /\ reqs[r].pc = "ss_poll"
    /\ job_state \in JobStatusResults(reqs[r].job)
    /\ productions' = UpdateProduction(reqs[r].id, StitchResolution(job_state))
    /\ resp' = Response("stitch_status", 200, StitchAnswer(job_state))
    /\ reqs' = [reqs EXCEPT ![r] = IdleReq]
    /\ UNCHANGED <<uploads, videoOps, jobs, analyses>>

(***************************************************************************)
(* The three pollers run from their first step to their response with no   *)
(* other request in between: the store they leave.                         *)
(***************************************************************************)
\* check_operation_status for a production p that exists, given the status
\* get_video_generation_status returned
OpStatusRun(p, production_id, scene_id, status) ==
    LET q == IF WritesScene(status, production_id, scene_id)
             THEN [p EXCEPT !.scenes =
                        UpdateScene(p.scenes, scene_id, PollSceneUpdates(status))]
             ELSE p
    IN  IF PersistsFailure(status, production_id)
        THEN Merge(q, PollProductionUpdates)
        ELSE q

\* get_stitch_status for a production p that exists, given the state
\* get_job_status returned
StitchStatusRun(p, job_state) ==
    IF p.stitch_job_name = 0 THEN p ELSE Merge(p, StitchResolution(job_state))

\* the loop of get_compress_status from variant k on; acc holds the uploads
\* collection, the variants list and the updated flag, states the state
\* get_job_status returns for each job
RECURSIVE PollVariants(_, _, _, _)
PollVariants(acc, id, k, states) ==
    IF k > Len(acc.variants) THEN acc
    ELSE LET v == acc.variants[k]
         IN  IF v.status = "processing" /\ v.job_name # 0
             THEN LET st == states[v.job_name]
                      w == ResolveVariant(v, st, Len(acc.uploads) + 1)
                  IN  PollVariants(
                          [uploads |-> IF CreatesChild(v, st)
                                       THEN Append(acc.uploads, ChildUpload(id, v))
                                       ELSE acc.uploads,
                           variants |-> [acc.variants EXCEPT ![k] = w],
                           updated |-> acc.updated \/ w # v],
                          id, k + 1, states)
             ELSE PollVariants(acc, id, k + 1, states)

\* get_compress_status for the upload id of the collection ups
CompressStatusRun(ups, id, states) ==
    LET acc == PollVariants([uploads |-> ups,
                             variants |-> ups[id].compressed_variants,
                             updated |-> FALSE], id, 1, states)
    IN  IF acc.updated
        THEN [acc.uploads EXCEPT ![id].compressed_variants = acc.variants]
        ELSE acc.uploads

(***************************************************************************)
(* Specifications.                                                         *)
(***************************************************************************)
FileTypes == {"video", "image"}
Resolutions == {"480p", "720p", "1080p"}
JobOutcomes == {"SUCCEEDED", "FAILED"}
JobStates == {"RUNNING", "SUCCEEDED", "FAILED", "UNKNOWN"}
SceneIds == 1..(MaxAnalyses * MaxScenes)
\* the cost_usd analyze_brief computes from the token counts of the answer:
\* a client's briefs cost the same, the briefs of different clients do not
AnalysisCosts == {AnalysisCost, 2 * AnalysisCost}
\* the veo_duration the video endpoint computes from the scene's timestamps
VeoSeconds == {VeoMinSeconds, VeoMaxSeconds}

\* the collaborators, in the order the startup initialises them
Startup == <<"firestore", "storage", "ai", "video", "transcoder">>
Services == {Startup[k] : k \in 1..Len(Startup)}

\* nothing in flight, no collaborator has been asked for anything, every
\* collaborator initialised
Quiet ==
    /\ videoOps = << >>
    /\ jobs = << >>
    /\ reqs = [r \in Slots |-> IdleReq]
    /\ resp = NoResponse
    /\ sent = 0
    /\ now = 0
    /\ services = Services
    /\ moments = << >>

\* the store after create_production
ProductionInit ==
    /\ productions = << DraftProduction >>
    /\ uploads = << >>
    /\ analyses = 0
    /\ Quiet

\* the store after an upload has been recorded
UploadInit ==
    /\ productions = << >>
    /\ \E ft \in FileTypes : uploads = << NewUpload(ft) >>
    /\ analyses = 0
    /\ Quiet

Init == ProductionInit \/ UploadInit

\* a request arrives while the clients have sent fewer than budget requests
Arrives(budget) ==
    sent < budget /\ sent' = sent + 1 /\ UNCHANGED <<now, services, moments>>

\* a step that is not the arrival of a request
Within == UNCHANGED <<sent, now, services, moments>>

\* the collaborators make progress on their own
Provider ==
    \/ \E j \in 1..Len(jobs), st \in JobOutcomes : Within /\ TranscoderFinish(j, st)
    \/ \E h \in 1..Len(videoOps) : \E o \in VideoOutcomes(h) :
          Within /\ VideoFinish(h, o)

\* the context a client sends with the poll of an operation: none, or the
\* production and the scene the operation was started for
PollContexts(name) ==
    {<<0, 0>>} \cup {<<p, videoOps[name].scene>> : p \in 1..Len(productions)}

\* the collaborators an endpoint checks before anything else
Needs(kind) ==
    IF kind \in {"compress", "compress_status"} THEN {"firestore", "transcoder"}
    ELSE IF kind \in {"analyze", "frame"} THEN {"firestore", "ai"}
    ELSE IF kind = "video" THEN {"firestore", "video"}
    ELSE IF kind = "op_status" THEN {"video"}
    ELSE IF kind \in {"stitch", "stitch_status"}
    THEN {"firestore", "transcoder", "storage"}
    ELSE {"firestore"}

\* raise HTTPException(status_code=503, detail="Service not initialized")
Unavailable(r, kind) ==
    /\ Free(r)
    /\ resp' = Response(kind, 503, "Service not initialized")
    /\ UNCHANGED <<productions, uploads, videoOps, jobs, reqs, analyses>>

\* an endpoint: the check of its collaborators, then its handler
Served(r, kind, Handler) ==
    IF Needs(kind) \subseteq services THEN Handler ELSE Unavailable(r, kind)

\* a request arrives: the first step of its handler; the ids the clients send
\* are the ids of the productions and unknown of ids that no production has
RequestAmong(r, budget, unknown) ==
    \/ \E id \in 1..Len(uploads), res \in Resolutions :
          /\ Arrives(budget)
          /\ Served(r, "compress", CompressBegin(r, id, res))
    \/ \E id \in 1..Len(uploads) :
          /\ Arrives(budget)
          /\ Served(r, "compress_status", CompressStatusBegin(r, id))
    \/ \E id \in 1..(Len(productions) + unknown) :
          /\ Arrives(budget)
          /\ analyses + Analyzing < MaxAnalyses
          /\ Served(r, "analyze", AnalyzeBegin(r, id))
    \/ \E id \in 1..(Len(productions) + unknown), s \in SceneIds :
          Arrives(budget) /\ Served(r, "frame", FrameBegin(r, id, s))
    \/ \E id \in 1..(Len(productions) + unknown) :
          Arrives(budget) /\ Served(r, "render", StartRender(r, id))
    \/ \E id \in 1..(Len(productions) + unknown), s \in SceneIds :
          Arrives(budget) /\ Served(r, "video", VideoBegin(r, id, s))
    \/ \E name \in 1..Len(videoOps) : \E st \in VideoStatusResults(name) :
          \E c \in PollContexts(name) :
              /\ Arrives(budget)
              /\ Served(r, "op_status", OpStatusPoll(r, name, c[1], c[2], st))
    \/ \E id \in 1..(Len(productions) + unknown) :
          Arrives(budget) /\ Served(r, "stitch", StitchBegin(r, id))
    \/ \E id \in 1..(Len(productions) + unknown) :
          Arrives(budget) /\ Served(r, "stitch_status", StitchStatusBegin(r, id))

\* the requests of clients that send the ids of productions only
Request(r, budget) == RequestAmong(r, budget, 0)

\* a handler takes its next step; the collaborators accept at most MaxJobs
\* jobs and MaxOps operations
Step(r) ==
    \/ Within /\ Len(jobs) < MaxJobs /\ CompressDispatch(r)
    \/ Within /\ CompressDispatchFails(r)
    \/ Within /\ CompressPersist(r)
    \/ \E st \in JobStates : Within /\ CompressStatusPoll(r, st)
    \/ \E n \in 0..MaxScenes : Within /\ AnalyzeFinish(r, n, AnalysisCost)
    \/ Within /\ AnalyzeFails(r)
    \/ Within /\ FrameGenerate(r)
    \/ Within /\ FrameWrite(r)
    \/ Within /\ FrameCostRead(r)
    \/ Within /\ FrameCostWrite(r)
    \/ Within /\ FrameGenerateFails(r)
    \/ Within /\ FrameFailScene(r)
    \/ Within /\ FrameFailProduction(r)
    \/ Within /\ KickoffRead(r)
    \/ Within /\ KickoffMarkRead(r)
    \/ Within /\ KickoffMarkWrite(r)
    \/ Within /\ Len(videoOps) < MaxOps /\ KickoffGenerate(r)
    \/ Within /\ KickoffGenerateFails(r)
    \/ Within /\ KickoffOpWrite(r)
    \/ Within /\ VideoMarkRead(r)
    \/ Within /\ VideoMarkWrite(r)
    \/ Within /\ Len(videoOps) < MaxOps /\ VideoGenerate(r)
    \/ Within /\ VideoGenerateFails(r)
    \/ Within /\ VideoCostRead(r)
    \/ Within /\ VideoCostWrite(r, VeoMaxSeconds)
    \/ Within /\ VideoPromptRead(r)
    \/ Within /\ VideoPromptWrite(r)
    \/ Within /\ OpStatusSceneWrite(r)
    \/ Within /\ OpStatusFailProduction(r)
    \/ Within /\ StitchMark(r)
    \/ Within /\ Len(jobs) < MaxJobs /\ StitchDispatch(r)
    \/ Within /\ StitchDispatchFails(r)
    \/ Within /\ StitchPersist(r)
    \/ \E st \in JobStates : Within /\ StitchStatusPoll(r, st)

\* clients using the slots of the set slots send at most budget requests
Run(budget, slots) ==
    \/ \E r \in slots : Request(r, budget)
    \/ \E r \in slots : Step(r)
    \/ Provider

\* one client that waits for each request to end before it sends the next
Next == Run(MaxRequests, {"a"})

Spec == Init /\ [][Next]_vars

\* two requests in flight at once
RaceNext == Run(MaxRaceRequests, Slots)

RaceSpec == Init /\ [][RaceNext]_vars

\* ---------------------------------------------------------------------------
\* The client that keeps polling.  It asks for an analysis and for videos,
\* through the render kickoff or scene by scene, while the provider has
\* started fewer than MaxOps operations, and it polls every operation with
\* the production and the scene the operation was started for.  No call
\* that starts work raises and no status lookup raises.
\* ---------------------------------------------------------------------------
FairHandles == 1..MaxOps

FairPoll(h) ==
    /\ h \in 1..Len(videoOps)
    /\ Within
    /\ OpStatusPoll("a", h, 1, videoOps[h].scene, VideoStatusOf(videoOps[h]))

FairFinish(h) == \E o \in VideoOutcomes(h) : Within /\ VideoFinish(h, o)

\* the steps a handler takes once its request has arrived
FairSteps ==
    \/ \E n \in 1..MaxScenes : Within /\ AnalyzeFinish("a", n, AnalysisCost)
    \/ Within /\ KickoffRead("a")
    \/ Within /\ KickoffMarkRead("a")
    \/ Within /\ KickoffMarkWrite("a")
    \/ Within /\ KickoffGenerate("a")
    \/ Within /\ KickoffOpWrite("a")
    \/ Within /\ VideoMarkRead("a")
    \/ Within /\ VideoMarkWrite("a")
    \/ Within /\ VideoGenerate("a")
    \/ Within /\ VideoCostRead("a")
    \/ Within /\ VideoCostWrite("a", VeoMaxSeconds)
    \/ Within /\ VideoPromptRead("a")
    \/ Within /\ VideoPromptWrite("a")
    \/ Within /\ OpStatusSceneWrite("a")
    \/ Within /\ OpStatusFailProduction("a")

FairNext ==
    \/ Within /\ analyses + Analyzing < MaxAnalyses /\ AnalyzeBegin("a", 1)
    \/ \E s \in SceneIds :
          Within /\ Len(videoOps) < MaxOps /\ VideoBegin("a", 1, s)
    \/ /\ Within
       /\ Len(videoOps) + Len(productions[1].scenes) <= MaxOps
       /\ StartRender("a", 1)
    \/ FairSteps
    \/ \E h \in FairHandles : FairFinish(h)
    \/ \E h \in FairHandles : FairPoll(h)

\* handlers run to their end, every operation ends, and every operation is
\* polled again and again
FairSpec ==
    /\ ProductionInit
    /\ [][FairNext]_vars
    /\ WF_vars(FairSteps)
    /\ \A h \in FairHandles : WF_vars(FairFinish(h))
    /\ \A h \in FairHandles : SF_vars(FairPoll(h))

\* ---------------------------------------------------------------------------
\* The end-to-end scenario: a production analysed into ScenarioScenes
\* pending scenes; the client asks for the render, polls each operation once
\* the provider has ended it with a video, asks for the stitch once every
\* scene is completed, and polls the stitch once the job has succeeded.
\* ---------------------------------------------------------------------------
ScenarioInit ==
    /\ productions =
          << [DraftProduction EXCEPT
                 !.status = "scripted",
                 !.scenes = [k \in 1..ScenarioScenes |-> NewScene(k)]] >>
    /\ uploads = << >>
    /\ analyses = 1
    /\ Quiet

SceneOf(sid) ==
    LET scenes == productions[1].scenes
    IN  scenes[CHOOSE k \in 1..Len(scenes) : scenes[k].id = sid]

AllCompleted ==
    \A k \in 1..Len(productions[1].scenes) :
        productions[1].scenes[k].status = "completed"

\* the client of the scenario sends a request
Sends == sent' = sent + 1 /\ UNCHANGED <<now, services, moments>>

ScenarioNext ==
    \/ Arrives(1) /\ StartRender("a", 1)
    \/ Within /\ KickoffRead("a")
    \/ Within /\ KickoffMarkRead("a")
    \/ Within /\ KickoffMarkWrite("a")
    \/ Within /\ KickoffGenerate("a")
    \/ Within /\ KickoffOpWrite("a")
    \/ \E h \in 1..Len(videoOps) :
          Within /\ VideoFinish(h, [state |-> "video", uri |-> GsUrl(h)])
    \/ \E h \in 1..Len(videoOps) :
          /\ videoOps[h].state = "video"
          /\ SceneOf(videoOps[h].scene).status # "completed"
          /\ Sends
          /\ OpStatusPoll("a", h, 1, videoOps[h].scene, VideoStatusOf(videoOps[h]))
    \/ Within /\ OpStatusSceneWrite("a")
    \/ /\ AllCompleted
       /\ productions[1].status = "generating"
       /\ Sends
       /\ StitchBegin("a", 1)
    \/ Within /\ StitchMark("a")
    \/ Within /\ StitchDispatch("a")
    \/ Within /\ StitchPersist("a")
    \/ \E j \in 1..Len(jobs) : Within /\ TranscoderFinish(j, "SUCCEEDED")
    \/ /\ productions[1].status = "stitching"
       /\ productions[1].stitch_job_name # 0
       /\ jobs[productions[1].stitch_job_name].state = "SUCCEEDED"
       /\ Sends
       /\ StitchStatusBegin("a", 1)
    \/ Within /\ StitchStatusPoll("a", "SUCCEEDED")

ScenarioSpec == ScenarioInit /\ [][ScenarioNext]_vars /\ WF_vars(ScenarioNext)

\* ---------------------------------------------------------------------------
\* The usage of a production.  One client asks for analyses of its
\* production, at most UsageAnalyses of them, and for frames and videos of
\* the scenes; briefs differ in cost and scenes in length.  No collaborator
\* raises.
\* ---------------------------------------------------------------------------
UsageSceneIds == 1..(UsageAnalyses * MaxScenes)

UsageNext ==
    \/ /\ Arrives(UsageRequests)
       /\ analyses < UsageAnalyses
       /\ AnalyzeBegin("a", 1)
    \/ \E n \in 1..MaxScenes, c \in AnalysisCosts :
          Within /\ AnalyzeFinish("a", n, c)
    \/ \E s \in UsageSceneIds : Arrives(UsageRequests) /\ FrameBegin("a", 1, s)
    \/ Within /\ FrameGenerate("a")
    \/ Within /\ FrameWrite("a")
    \/ Within /\ FrameCostRead("a")
    \/ Within /\ FrameCostWrite("a")
    \/ \E s \in UsageSceneIds : Arrives(UsageRequests) /\ VideoBegin("a", 1, s)
    \/ Within /\ VideoMarkRead("a")
    \/ Within /\ VideoMarkWrite("a")
    \/ Within /\ VideoGenerate("a")
    \/ Within /\ VideoCostRead("a")
    \/ \E d \in VeoSeconds : Within /\ VideoCostWrite("a", d)
    \/ Within /\ VideoPromptRead("a")
    \/ Within /\ VideoPromptWrite("a")

UsageSpec == ProductionInit /\ [][UsageNext]_vars

(***************************************************************************)
(* Properties.                                                             *)
(***************************************************************************)
\* no request is being served
AllFree == \A r \in Slots : Free(r)

\* the scenes of the stored productions
StoredScenes ==
    UNION {{productions[p].scenes[k] : k \in 1..Len(productions[p].scenes)} :
              p \in 1..Len(productions)}

\* the handle of the last operation started for a scene, 0 if none was
LastStarted(sid) ==
    LET hs == {h \in 1..Len(videoOps) : videoOps[h].scene = sid}
    IN  IF hs = {} THEN 0 ELSE CHOOSE h \in hs : \A g \in hs : g <= h

\* C1: between requests, a scene with status generating for which a video
\* operation has been started holds the handle of that operation in its
\* operation_name.
C1_HandlePersisted ==
    AllFree =>
        \A scene \in StoredScenes :
            (scene.status = "generating" /\ LastStarted(scene.id) # 0)
                => scene.operation_name = LastStarted(scene.id)

SceneHasStatus(sid, statuses) ==
    \E scene \in StoredScenes : scene.id = sid /\ scene.status \in statuses

\* C2: with a provider that ends every operation and a client that keeps
\* polling every operation with its production and scene, a scene that is
\* generating is eventually completed or failed.
C2_GeneratingSettles ==
    \A sid \in SceneIds :
        SceneHasStatus(sid, {"generating"})
            ~> SceneHasStatus(sid, {"completed", "failed"})

\* two requests ask for the same job: the same upload and resolution, or the
\* same production
SameDispatch(q1, q2) ==
    /\ q1.kind \in {"compress", "stitch"}
    /\ q1.kind = q2.kind
    /\ q1.id = q2.id
    /\ q1.resolution = q2.resolution

\* C3: of two requests in flight that ask for the same compress or stitch
\* job, at most one starts a job.
C3_OneJobPerRace ==
    \A r1, r2 \in Slots :
        (r1 # r2 /\ SameDispatch(reqs[r1], reqs[r2]))
            => ~(reqs[r1].job # 0 /\ reqs[r2].job # 0)

LiveJob(j) == j # 0 /\ jobs[j].state \in {"RUNNING", "SUCCEEDED"}
RunningOp(h) == h # 0 /\ videoOps[h].state = "running"

\* C4: no step starts a stitch job for a production whose stitch_job_name
\* names a job that is running or has succeeded, and no step starts a video
\* operation for a scene whose operation_name names a running operation.
C4_NoSecondJob ==
    [][ /\ (Len(jobs') > Len(jobs) /\ jobs'[Len(jobs')].kind = "stitch")
            => ~LiveJob(productions[jobs'[Len(jobs')].target].stitch_job_name)
        /\ Len(videoOps') > Len(videoOps)
            => \A scene \in StoredScenes :
                   scene.id = videoOps'[Len(videoOps')].scene
                       => ~RunningOp(scene.operation_name)
      ]_vars

\* the upload holds a variant of the resolution that is processing or has
\* succeeded
HasLiveVariant(record, resolution) ==
    \E k \in 1..Len(record.compressed_variants) :
        /\ record.compressed_variants[k].resolution = resolution
        /\ record.compressed_variants[k].status \in {"processing", "succeeded"}

\* C5: a compress request for an upload and a resolution with a variant
\* that is processing or has succeeded is answered with an error at once:
\* no job is started, the uploads are unchanged and the request is over.
C5_DuplicateCompressRejected ==
    [][ \A r \in Slots : \A id \in 1..Len(uploads) : \A res \in Resolutions :
            (HasLiveVariant(uploads[id], res) /\ CompressBegin(r, id, res))
                => /\ resp'.kind = "compress"
                   /\ resp'.code >= 400
                   /\ jobs' = jobs
                   /\ uploads' = uploads
                   /\ reqs'[r] = IdleReq
      ]_vars

\* a compress request has just been rejected for a variant that has succeeded
C5_Witness ==
    /\ resp.kind = "compress"
    /\ resp.detail = "variant already processing or succeeded"
    /\ \E id \in 1..Len(uploads) :
          /\ Len(uploads[id].compressed_variants) = 1
          /\ uploads[id].compressed_variants[1].status = "succeeded"

\* C6: the answer to a compress request for a resolution that is processing
\* or has succeeded is a conflict (409), not the bad request (400) of an
\* invalid resolution or of a file that is not a video.
C6_DuplicateIsConflict ==
    (resp.kind = "compress"
        /\ resp.detail = "variant already processing or succeeded")
        => resp.code = 409

TerminalJobStates == {"SUCCEEDED", "FAILED", "UNKNOWN"}

\* what a poll of an operation that has ended can return
TerminalVideoStatuses ==
    {VideoStatusError} \cup
    UNION {{VideoStatusOf(o) : o \in VideoOutcomes(h)} : h \in 1..Len(videoOps)}

\* C7: each poller, run a second time with the same terminal outcome, leaves
\* the store as the first run left it, and the pollers answer 200:
\* check_operation_status with the same production and scene,
\* get_stitch_status, and get_compress_status (variants and child records).
C7_ResolveIdempotent ==
    /\ \A id \in 1..Len(productions) : \A sid \in SceneIds \cup {0} :
          \A st \in TerminalVideoStatuses :
              LET once == OpStatusRun(productions[id], id, sid, st)
              IN  OpStatusRun(once, id, sid, st) = once
    /\ \A id \in 1..Len(productions) : \A st \in TerminalJobStates :
          LET once == StitchStatusRun(productions[id], st)
          IN  StitchStatusRun(once, st) = once
    /\ \A id \in 1..Len(uploads) :
          \A states \in [1..Len(jobs) -> TerminalJobStates] :
              LET once == CompressStatusRun(uploads, id, states)
              IN  CompressStatusRun(once, id, states) = once
    /\ resp.kind \in {"op_status", "stitch_status", "compress_status"}
          => resp.code = 200

\* get_compress_status has resolved a variant and created its child record,
\* and another variant is still to be resolved
C7_Witness ==
    /\ AllFree
    /\ resp.kind = "compress_status"
    /\ \E id \in 1..Len(uploads) :
          LET vs == uploads[id].compressed_variants
          IN  /\ Len(vs) = 2
              /\ vs[1].status = "succeeded"
              /\ vs[1].child_upload_id # 0
              /\ uploads[vs[1].child_upload_id].parent_upload_id = id
              /\ vs[2].status = "processing"

LacksDurableVideo(scene) == scene.video_url.scheme # "gs"

\* index of the first scene that lacks a durable video
FirstLacking(scenes) ==
    CHOOSE k \in 1..Len(scenes) :
        /\ LacksDurableVideo(scenes[k])
        /\ \A j \in 1..(k - 1) : ~LacksDurableVideo(scenes[j])

\* C9: a stitch request for a production with a scene that lacks a gs://
\* video_url is answered 400 naming the first such scene; it starts no job,
\* leaves the production as it is and the request is over.
C9_StitchPrecondition ==
    [][ \A r \in Slots : \A id \in 1..Len(productions) :
            ((\E k \in 1..Len(productions[id].scenes) :
                  LacksDurableVideo(productions[id].scenes[k]))
             /\ StitchBegin(r, id))
                => /\ resp'.kind = "stitch"
                   /\ resp'.code = 400
                   /\ resp'.scene =
                        productions[id].scenes[
                            FirstLacking(productions[id].scenes)].id
                   /\ jobs' = jobs
                   /\ productions' = productions
                   /\ reqs' = reqs
      ]_vars

\* a stitch request has just been rejected naming the second scene: the
\* first scene has a durable video
C9_Witness ==
    /\ resp.kind = "stitch"
    /\ resp.code = 400
    /\ \E p \in 1..Len(productions) :
          /\ Len(productions[p].scenes) >= 2
          /\ ~LacksDurableVideo(productions[p].scenes[1])
          /\ resp.scene = productions[p].scenes[2].id
          /\ productions[p].stitch_job_name = 0

ScenarioProduction == productions[1]

\* the scenes that are completed with a video
ScenarioCompleted ==
    {k \in 1..Len(ScenarioProduction.scenes) :
        /\ ScenarioProduction.scenes[k].status = "completed"
        /\ Truthy(ScenarioProduction.scenes[k].video_url)}

\* the scenes that are generating
ScenarioGenerating ==
    {k \in 1..Len(ScenarioProduction.scenes) :
        ScenarioProduction.scenes[k].status = "generating"}

\* every scene holds the handle of an operation started for it
ScenarioHandles ==
    \A k \in 1..Len(ScenarioProduction.scenes) :
        LET scene == ScenarioProduction.scenes[k]
        IN  /\ scene.operation_name # 0
            /\ videoOps[scene.operation_name].scene = scene.id

\* where the scenario stands between requests, by the requests sent: the
\* render, then a poll for each scene, then the stitch, then its poll
ScenarioMilestones ==
    (AllFree /\ sent >= 1) =>
        LET polls == IF sent - 1 < ScenarioScenes THEN sent - 1
                     ELSE ScenarioScenes
        IN  /\ Len(ScenarioProduction.scenes) = ScenarioScenes
            /\ ScenarioHandles
            /\ Cardinality(ScenarioCompleted) = polls
            /\ Cardinality(ScenarioGenerating) = ScenarioScenes - polls
            /\ sent <= ScenarioScenes + 1
                  => ScenarioProduction.status = "generating"
            /\ sent = ScenarioScenes + 2
                  => /\ ScenarioProduction.status = "stitching"
                     /\ ScenarioProduction.stitch_job_name # 0
                     /\ jobs[ScenarioProduction.stitch_job_name].inputs
                            = SceneUris(ScenarioProduction.scenes)
            /\ sent = ScenarioScenes + 3
                  => /\ ScenarioProduction.status = "completed"
                     /\ Truthy(ScenarioProduction.final_video_url)

ScenarioDone ==
    /\ AllFree
    /\ sent = ScenarioScenes + 3
    /\ ScenarioProduction.status = "completed"
    /\ Truthy(ScenarioProduction.final_video_url)
    /\ Cardinality(ScenarioCompleted) = ScenarioScenes

\* C10: in the scenario the render leaves every scene generating with an
\* operation_name, each poll of a succeeded operation completes a scene with
\* a video_url, the stitch request leaves the production stitching, the poll
\* of the succeeded stitch job leaves it completed with a final_video_url,
\* and the scenario gets there.
C10_Scenario == []ScenarioMilestones /\ <>ScenarioDone

\* the scenario has run to its end
C10_Witness == ScenarioDone

\* what a poll returns for an operation that is still running, and for one
\* that ended with an error
StillRunning == VideoStatusOf(NewOperation(0))
Errored == VideoStatusOf([NewOperation(0) EXCEPT !.state = "failed"])

\* C11: for an operation that ended with no error and no video, the poll with
\* the production and the scene leaves the scene in a state that differs from
\* the state the poll of a running operation leaves and from the state the
\* poll of an operation that ended with an error leaves.
C11_NoVideoRecorded ==
    \A h \in 1..Len(videoOps) : \A id \in 1..Len(productions) :
        (videoOps[h].state = "novideo"
            /\ HasScene(productions[id].scenes, videoOps[h].scene))
            => LET p == productions[id]
                   sid == videoOps[h].scene
                   nothing == OpStatusRun(p, id, sid, VideoStatusOf(videoOps[h]))
               IN  /\ nothing.scenes # OpStatusRun(p, id, sid, StillRunning).scenes
                   /\ nothing.scenes # OpStatusRun(p, id, sid, Errored).scenes

\* the scene of the production is generating and holds no handle
StuckScene(p, sid) ==
    \E k \in 1..Len(p.scenes) :
        /\ p.scenes[k].id = sid
        /\ p.scenes[k].status = "generating"
        /\ p.scenes[k].operation_name = 0

\* C12: a step in which a collaborator raises (analyze_brief in the analysis,
\* generate_scene_video in the video endpoint and in the render kickoff,
\* stitch_from_uris in the stitch) does not end its request with the
\* production analyzing, generating or stitching, nor with the scene
\* generating, and no handle persisted.
C12_RaiseLeavesNothingStuck ==
    [][ \A r \in Slots :
          LET q == reqs[r]
              after == productions'[q.id]
          IN  /\ AnalyzeFails(r) => after.status # "analyzing"
              /\ VideoGenerateFails(r) => ~StuckScene(after, q.sid)
              /\ KickoffGenerateFails(r)
                    => /\ after.status # "generating"
                       /\ ~StuckScene(after, q.snap[q.i].id)
              /\ StitchDispatchFails(r)
                    => (after.status = "stitching" => after.stitch_job_name # 0)
      ]_vars

\* the production is failed with an error message
FailurePersisted(p) == p.status = "failed" /\ p.error_message # ""

\* the scene of the production is failed with an error message
SceneFailurePersisted(p, sid) ==
    \A k \in 1..Len(p.scenes) :
        p.scenes[k].id = sid
            => p.scenes[k].status = "failed" /\ p.scenes[k].error_message # ""

\* C13: a poll that finds the operation failed, sent with the production and
\* the scene, goes on to write the scene failed with an error message and
\* then the production failed with an error message, the scene still failed;
\* a poll that finds the stitch job FAILED writes the production failed with
\* an error message.
C13_FailurePersisted ==
    [][ \A r \in Slots :
          /\ \A name \in 1..Len(videoOps) : \A id \in 1..Len(productions) :
                OpStatusPoll(r, name, id, videoOps[name].scene, Errored)
                    => reqs'[r].pc = "o_scene_write"
          /\ (OpStatusSceneWrite(r) /\ reqs[r].outcome = "failed")
                => /\ SceneFailurePersisted(productions'[reqs[r].id], reqs[r].sid)
                   /\ reqs'[r].pc = "o_fail_production"
          /\ OpStatusFailProduction(r)
                => /\ FailurePersisted(productions'[reqs[r].id])
                   /\ SceneFailurePersisted(productions'[reqs[r].id], reqs[r].sid)
                   /\ Free(r)'
          /\ StitchStatusPoll(r, "FAILED")
                => FailurePersisted(productions'[reqs[r].id]) /\ Free(r)'
      ]_vars

\* the poll of a failed operation has just been answered: its scene and its
\* production are failed
C13_Witness ==
    /\ AllFree
    /\ resp.kind = "op_status"
    /\ resp.detail = "failed"
    /\ \E id \in 1..Len(productions) :
          /\ productions[id].status = "failed"
          /\ productions[id].error_message = PollProductionUpdates.error_message
          /\ \E k \in 1..Len(productions[id].scenes) :
                /\ productions[id].scenes[k].status = "failed"
                /\ productions[id].scenes[k].error_message # ""

\* the edges of the lifecycle of a production
LifecycleEdges ==
    {<<"draft", "analyzing">>, <<"analyzing", "scripted">>,
     <<"scripted", "generating">>, <<"generating", "stitching">>,
     <<"stitching", "completed">>}
    \cup {<<x, "failed">> : x \in {"analyzing", "generating", "stitching"}}

\* C14: every step that changes the status of a production moves it along
\* an edge of the lifecycle: draft to analyzing, analyzing to scripted,
\* scripted to generating, generating to stitching, stitching to completed,
\* or analyzing, generating or stitching to failed.
C14_LifecycleEdges ==
    [][ \A id \in 1..Len(productions) :
          productions'[id].status # productions[id].status
              => <<productions[id].status, productions'[id].status>>
                    \in LifecycleEdges
      ]_vars

\* the status the step that failed a production writes when it is invoked
\* again, by the error message the failure left: the render and the stitch
\* write a status, the frame and video endpoints write none
RetryStatuses(error_message) ==
    IF error_message \in {"render kickoff raised",
                          PollProductionUpdates.error_message}
    THEN {"generating"}
    ELSE IF error_message \in {"stitch_from_uris raised",
                               StitchResolution("FAILED").error_message,
                               StitchResolution("UNKNOWN").error_message}
    THEN {"stitching"}
    ELSE {}

\* C15: no step changes a production that is completed, and a step changes
\* the status of a failed production only to the status the step that failed
\* writes when it is invoked again.
C15_TerminalStatuses ==
    [][ \A id \in 1..Len(productions) :
          /\ productions[id].status = "completed"
                => productions'[id] = productions[id]
          /\ (productions[id].status = "failed"
                /\ productions'[id].status # "failed")
                => productions'[id].status
                      \in RetryStatuses(productions[id].error_message)
      ]_vars

\* the edges of the lifecycle of a scene; the last two are the regeneration
SceneEdges ==
    {<<"pending", "generating">>, <<"generating", "completed">>,
     <<"generating", "failed">>, <<"completed", "generating">>,
     <<"failed", "generating">>}

\* C16: every step that changes the status of a stored scene moves it along
\* an edge of the lifecycle of a scene: pending to generating, generating to
\* completed or to failed, completed or failed to generating.
C16_SceneEdges ==
    [][ \A id \in 1..Len(productions) :
          \A k \in 1..Len(productions[id].scenes) :
              \A j \in 1..Len(productions'[id].scenes) :
                  LET before == productions[id].scenes[k]
                      after == productions'[id].scenes[j]
                  IN  (before.id = after.id /\ before.status # after.status)
                          => <<before.status, after.status>> \in SceneEdges
      ]_vars

\* the stored scenes of the production with the id sid
ScenesWithId(p, sid) ==
    {p.scenes[k] : k \in {j \in 1..Len(p.scenes) : p.scenes[j].id = sid}}

\* C17: the render kickoff starts no operation for a scene that holds a
\* gs:// video_url, and its write for such a scene leaves the stored scene as
\* it was.
C17_KickoffSkipsDurable ==
    [][ \A r \in Slots :
          LET q == reqs[r]
              sid == q.snap[q.i].id
          IN  /\ KickoffGenerate(r)
                    => \A scene \in ScenesWithId(productions[q.id], sid) :
                           ~HasDurableVideo(scene)
              /\ (KickoffMarkWrite(r) /\ HasDurableVideo(q.snap[q.i]))
                    => ScenesWithId(productions'[q.id], sid)
                          = ScenesWithId(productions[q.id], sid)
      ]_vars

\* C18: when generate_scene_video raises for a scene of the render kickoff
\* and a later scene of the kickoff lacks a video, the kickoff goes on with
\* that scene.
C18_KickoffGoesOn ==
    [][ \A r \in Slots :
          LET q == reqs[r]
              next == KickNext(q.snap, q.i + 1)
          IN  (KickoffGenerateFails(r) /\ next <= Len(q.snap))
                  => reqs'[r] = KickoffAdvance(q)
      ]_vars

\* a stitch job of the production has succeeded
StitchSucceeded(id) ==
    \E j \in 1..Len(jobs) :
        /\ jobs[j].kind = "stitch"
        /\ jobs[j].target = id
        /\ jobs[j].state = "SUCCEEDED"

\* C19: a production holds a final_video_url only if one of its stitch jobs
\* has succeeded.
C19_FinalUrlOnSuccess ==
    \A id \in 1..Len(productions) :
        Truthy(productions[id].final_video_url) => StitchSucceeded(id)

\* C20: no step lowers the total_usage of a production.
C20_UsageNeverDecreases ==
    [][ \A id \in 1..Len(productions) :
          productions'[id].total_usage >= productions[id].total_usage
      ]_vars

\* the video request in the slot has written its cost and not yet answered
PastCost(r) ==
    reqs[r].kind = "video" /\ reqs[r].pc \in {"v_prompt_read", "v_prompt_write"}

\* the totals two video requests in flight can have left: what one of them
\* read, plus the cost of one video
OneVideoAdded(r) ==
    {reqs[r].usage + VeoCost(d) : d \in VeoSeconds}

\* C21: when two video requests on the same production have both written
\* their cost, the total_usage is the total one of them read plus the cost
\* of its video: the write takes no account of what the other has written.
C21_LastWriterWins ==
    (PastCost("a") /\ PastCost("b") /\ reqs["a"].id = reqs["b"].id)
        => productions[reqs["a"].id].total_usage
              \in OneVideoAdded("a") \cup OneVideoAdded("b")

\* both requests read the same total and both have written: the total holds
\* the cost of one video only, an update is lost
C21_Witness ==
    /\ PastCost("a") /\ PastCost("b")
    /\ reqs["a"].id = reqs["b"].id
    /\ reqs["a"].usage = reqs["b"].usage
    /\ productions[reqs["a"].id].total_usage \in OneVideoAdded("a")
    /\ Len(videoOps) = 2

(***************************************************************************)
(* Signed URLs and their cache.                                            *)
(***************************************************************************)
\* SIGN_DURATION (48 hours) and REFRESH_THRESHOLD (5 minutes), in minutes
SignDuration == 2880
RefreshThreshold == 5

\* datetime.isoformat of a time: the text of its hours and its minutes
IsoFormat(t) == <<t \div 60, t % 60>>
\* datetime.fromisoformat
FromIsoFormat(text) == text[1] * 60 + text[2]

\* a dict with no key
EmptyDict == [u \in {} |-> 0]
\* d[key] = value
Put(d, key, value) ==
    [u \in DOMAIN d \cup {key} |-> IF u = key THEN value ELSE d[u]]
\* d.pop(key, None)
Pop(d, key) == [u \in DOMAIN d \ {key} |-> d[u]]
\* data.get("signed_urls") or {}
CacheOf(doc) == IF DOMAIN doc.signed_urls = {} THEN EmptyDict ELSE doc.signed_urls

\* blob.generate_signed_url at time t: the URL carries the time of signing
SignedUrl(gcs_uri, t) ==
    [scheme |-> "https", ref |-> gcs_uri.ref, signed_at |-> t]

\* StorageService._generate_signed_url at time t
GenerateSignedUrl(gcs_uri, t) ==
    [url |-> SignedUrl(gcs_uri, t), expires_at |-> IsoFormat(t + SignDuration)]

\* a cache entry that is reused until the threshold has passed
StillFreshAtThreshold(entry, t) ==
    FromIsoFormat(entry.expires_at) - t >= RefreshThreshold

\* expires_at - datetime.now(timezone.utc) > REFRESH_THRESHOLD
StillFresh(entry, t) ==
    FromIsoFormat(entry.expires_at) - t > RefreshThreshold

\* a resolve that signs whatever reference it is given
ResolveCachedUrlOfAny(gcs_uri, cache, t) ==
    LET entry == GenerateSignedUrl(gcs_uri, t)
    IN  IF gcs_uri \in DOMAIN cache /\ StillFresh(cache[gcs_uri], t)
        THEN [called |-> TRUE, gcs_uri |-> gcs_uri, before |-> cache,
              url |-> cache[gcs_uri].url, changed |-> FALSE, signed |-> 0,
              cache |-> cache]
        ELSE [called |-> TRUE, gcs_uri |-> gcs_uri, before |-> cache,
              url |-> entry.url, changed |-> TRUE, signed |-> 1,
              cache |-> Put(cache, gcs_uri, entry)]

\* StorageService.resolve_cached_url at time t: the url and changed it
\* returns, the number of URLs it signed and the cache afterwards, together
\* with its arguments
ResolveCachedUrl(gcs_uri, cache, t) ==
    LET call == [called |-> TRUE, gcs_uri |-> gcs_uri, before |-> cache,
                 url |-> gcs_uri, changed |-> FALSE, signed |-> 0,
                 cache |-> cache]
    IN  IF ~Truthy(gcs_uri) \/ ~IsGs(gcs_uri) THEN call
        ELSE IF gcs_uri \in DOMAIN cache /\ StillFresh(cache[gcs_uri], t)
        THEN [call EXCEPT !.url = cache[gcs_uri].url]
        ELSE LET entry == GenerateSignedUrl(gcs_uri, t)
             IN  [call EXCEPT !.url = entry.url, !.changed = TRUE,
                              !.signed = 1,
                              !.cache = Put(cache, gcs_uri, entry)]

\* StorageService.recover_gcs_uri of a URL that is not a gs:// URI: the
\* object of a URL signed for the bucket, None for any other URL
RecoverGcsUri(url) ==
    IF "signed_at" \in DOMAIN url THEN GsUrl(url.ref) ELSE NoUrl

\* a reference _resolve returns without a call of resolve_cached_url
Returned(gcs_uri, cache) ==
    [ResolveCachedUrl(NoUrl, cache, 0) EXCEPT
        !.called = FALSE, !.gcs_uri = gcs_uri, !.url = gcs_uri]

\* _resolve of _sign_production_urls: what it does with a stored reference,
\* a call of resolve_cached_url with gcs_uri or the return of gcs_uri
ProductionTarget(stored) ==
    LET target == [stored |-> stored, call |-> FALSE, gcs_uri |-> stored]
    IN  IF ~Truthy(stored) THEN target
        ELSE IF IsGs(stored) THEN [target EXCEPT !.call = TRUE]
        ELSE IF Truthy(RecoverGcsUri(stored))
        THEN [target EXCEPT !.call = TRUE, !.gcs_uri = RecoverGcsUri(stored)]
        ELSE target

\* _resolve of _sign_upload_urls
UploadTarget(stored) ==
    [stored |-> stored, call |-> Truthy(stored) /\ IsGs(stored),
     gcs_uri |-> stored]

\* the references of a scene that _sign_production_urls resolves
SceneTargets(scene, thumbnails_only) ==
    (IF "thumbnail_url" \in DOMAIN scene /\ Truthy(scene.thumbnail_url)
     THEN << ProductionTarget(scene.thumbnail_url) >> ELSE << >>)
    \o (IF ~thumbnails_only /\ Truthy(scene.video_url)
        THEN << ProductionTarget(scene.video_url) >> ELSE << >>)

RECURSIVE ScenesTargets(_, _, _)
ScenesTargets(scenes, k, thumbnails_only) ==
    IF k > Len(scenes) THEN << >>
    ELSE SceneTargets(scenes[k], thumbnails_only)
             \o ScenesTargets(scenes, k + 1, thumbnails_only)

\* the references _sign_production_urls resolves, in its order
ProductionTargets(production, thumbnails_only) ==
    ScenesTargets(production.scenes, 1, thumbnails_only)
    \o (IF ~thumbnails_only /\ Truthy(production.final_video_url)
        THEN << ProductionTarget(production.final_video_url) >> ELSE << >>)

\* the objects of an upload record are in the bucket
UploadUri(gcs_uri) == IF gcs_uri = << >> THEN NoUrl ELSE GsUrl(gcs_uri)

RECURSIVE VariantTargets(_, _)
VariantTargets(variants, k) ==
    IF k > Len(variants) THEN << >>
    ELSE (IF variants[k].gcs_uri # << >> /\ variants[k].status = "succeeded"
          THEN << UploadTarget(UploadUri(variants[k].gcs_uri)) >> ELSE << >>)
             \o VariantTargets(variants, k + 1)

\* the references _sign_upload_urls resolves, in its order
UploadTargets(record) ==
    << UploadTarget(UploadUri(record.gcs_uri)) >>
    \o VariantTargets(record.compressed_variants, 1)

\* the reference _sign_key_moments_url resolves
MomentsTargets(record) ==
    << [stored |-> record.video_gcs_uri, call |-> TRUE,
        gcs_uri |-> record.video_gcs_uri] >>

\* the calls of _resolve for the references from the k-th on, one after the
\* other on the same cache
RECURSIVE ResolveAll(_, _, _, _)
ResolveAll(targets, k, cache, t) ==
    IF k > Len(targets) THEN << >>
    ELSE LET call == IF targets[k].call
                     THEN ResolveCachedUrl(targets[k].gcs_uri, cache, t)
                     ELSE Returned(targets[k].gcs_uri, cache)
         IN  << call >> \o ResolveAll(targets, k + 1, call.cache, t)

\* dirty as the last call alone would set it
DirtyLast(calls) == calls # << >> /\ calls[Len(calls)].changed

\* dirty, and the cache after the calls
Dirty(calls) == \E k \in 1..Len(calls) : calls[k].changed
CacheAfter(calls, cache) ==
    IF calls = << >> THEN cache ELSE calls[Len(calls)].cache
Urls(calls) == [k \in 1..Len(calls) |-> calls[k].url]

\* a key-moments document: none, and the one analyze_key_moments stores
NoMoments == [exists |-> FALSE, video_gcs_uri |-> NoUrl, signed_urls |-> << >>]
NewMoments(gcs_uri) ==
    [NoMoments EXCEPT !.exists = TRUE, !.video_gcs_uri = gcs_uri]
GetMoments(id) == IF id \in 1..Len(moments) THEN moments[id] ELSE NoMoments

(***************************************************************************)
(* Reads: get and list of productions, uploads and key-moments analyses.   *)
(***************************************************************************)
ProductionReads == {"get_production", "list_productions"}
UploadReads == {"get_upload", "list_uploads"}
MomentsReads == {"get_key_moments", "list_key_moments"}
Gets == {"get_production", "get_upload", "get_key_moments"}

\* the documents of a collection, by id
Store(kind) ==
    IF kind \in ProductionReads THEN productions
    ELSE IF kind \in UploadReads THEN uploads
    ELSE moments

\* a listing that takes no document for archived
ArchivedNever(kind, doc) == FALSE

\* archived of a document; the uploads and the analyses of the model are
\* never archived
Archived(kind, doc) == kind \in ProductionReads /\ doc.archived

\* get_productions, get_upload_records, get_key_moments_analyses: the
\* documents from the k-th down, the archived ones left out unless asked for
RECURSIVE Stream(_, _, _)
Stream(kind, k, include_archived) ==
    IF k = 0 THEN << >>
    ELSE (IF include_archived \/ ~Archived(kind, Store(kind)[k])
          THEN << [id |-> k, doc |-> Store(kind)[k]] >> ELSE << >>)
             \o Stream(kind, k - 1, include_archived)

\* the documents a read signs: the one of a get, the listed ones of a list
ReadDocs(kind, id, include_archived) ==
    IF kind \in Gets
    THEN IF id \in 1..Len(Store(kind))
         THEN << [id |-> id, doc |-> Store(kind)[id]] >> ELSE << >>
    ELSE Stream(kind, Len(Store(kind)), include_archived)

\* the references the sign helper of a document resolves
Targets(kind, doc) ==
    IF kind = "get_production" THEN ProductionTargets(doc, FALSE)
    ELSE IF kind = "list_productions" THEN ProductionTargets(doc, TRUE)
    ELSE IF kind \in UploadReads THEN UploadTargets(doc)
    ELSE MomentsTargets(doc)

\* the sign helper returns the document as it is
Unsigned(kind, doc) ==
    \/ "storage" \notin services
    \/ kind \in MomentsReads /\ ~Truthy(doc.video_gcs_uri)

\* the dict of a document: its id, its references and its cache
Data(kind, d) ==
    [id |-> d.id, urls |-> [k \in 1..Len(Targets(kind, d.doc)) |->
                                 Targets(kind, d.doc)[k].stored],
     signed_urls |-> d.doc.signed_urls]

\* _sign_upload_urls looks for the size of the file
Backfills(kind, doc) ==
    kind \in UploadReads /\ doc.file_size_bytes = 0 /\ doc.gcs_uri # << >>

\* the sign helper of the i-th document starts
SignStart(q, i, body) ==
    LET kind == q.kind
        d == q.docs[i]
    IN  [q EXCEPT !.i = i, !.body = body, !.calls = << >>, !.wrote = {},
                  !.pc = IF Unsigned(kind, d.doc) THEN "rd_write"
                         ELSE IF Backfills(kind, d.doc) THEN "rd_size"
                         ELSE "rd_sign"]

\* the endpoint: the service check, the read of the documents, not found
ReadBegin(r, kind, id, include_archived) ==
    /\ Free(r)
    /\ LET docs == ReadDocs(kind, id, include_archived)
           q == [NewReq(kind, id) EXCEPT !.docs = docs,
                                         !.archived = include_archived]
       IN  IF "firestore" \notin services
           THEN /\ resp' = Response(kind, 503, "Service not initialized")
                /\ reqs' = reqs
           ELSE IF kind \in Gets /\ docs = << >>
           THEN /\ resp' = Response(kind, 404, "")
                /\ reqs' = reqs
           ELSE IF docs = << >>
           THEN /\ resp' = Response(kind, 200, "")
                /\ reqs' = reqs
           ELSE /\ resp' = NoResponse
                /\ reqs' = [reqs EXCEPT ![r] = SignStart(q, 1, << >>)]
    /\ UNCHANGED <<productions, uploads, videoOps, jobs, analyses>>

\* an update of a production that also drops its final_video_url, so that a
\* read changes a stored reference
UpdateFieldDroppingFinal(kind, id, field, value) ==
    /\ productions' = IF kind \in ProductionReads
                      THEN [productions EXCEPT ![id][field] = value,
                                               ![id].final_video_url = NoUrl]
                      ELSE productions
    /\ uploads' = IF kind \in UploadReads
                  THEN [uploads EXCEPT ![id][field] = value]
                  ELSE uploads
    /\ moments' = IF kind \in MomentsReads
                  THEN [moments EXCEPT ![id][field] = value]
                  ELSE moments

\* update_upload_record, update_production or the update of a key-moments
\* document, with one field
UpdateField(kind, id, field, value) ==
    /\ productions' = IF kind \in ProductionReads
                      THEN [productions EXCEPT ![id][field] = value]
                      ELSE productions
    /\ uploads' = IF kind \in UploadReads
                  THEN [uploads EXCEPT ![id][field] = value]
                  ELSE uploads
    /\ moments' = IF kind \in MomentsReads
                  THEN [moments EXCEPT ![id][field] = value]
                  ELSE moments

\* get_file_size returned size: a size above 0 is written to the record
ReadSize(r, size) ==
    /\ reqs[r].pc = "rd_size"
    /\ LET q == reqs[r]
           d == q.docs[q.i]
       IN  /\ IF size > 0
              THEN UpdateField(q.kind, d.id, "file_size_bytes", size)
              ELSE UNCHANGED <<productions, uploads, moments>>
           /\ reqs' = [reqs EXCEPT ![r] =
                   [q EXCEPT !.pc = "rd_sign",
                             !.wrote = IF size > 0 THEN {"file_size_bytes"}
                                       ELSE {}]]
    /\ resp' = NoResponse
    /\ UNCHANGED <<videoOps, jobs, analyses, sent, now, services>>

\* the references are resolved, one after the other, at the time of the clock
ReadSign(r) ==
    /\ reqs[r].pc = "rd_sign"
    /\ LET q == reqs[r]
           d == q.docs[q.i]
       IN  reqs' = [reqs EXCEPT ![r] =
               [q EXCEPT !.pc = "rd_write", !.at = now,
                         !.calls = ResolveAll(Targets(q.kind, d.doc), 1,
                                              CacheOf(d.doc), now)]]
    /\ resp' = NoResponse
    /\ UNCHANGED <<productions, uploads, moments, videoOps, jobs, analyses,
                   sent, now, services>>

\* what the sign helper returns for the document it has signed
Signed(q) ==
    LET d == q.docs[q.i]
        data == Data(q.kind, d)
    IN  IF Unsigned(q.kind, d.doc) THEN data
        ELSE Pop([data EXCEPT !.urls = Urls(q.calls)], "signed_urls")

\* the cache is written when a URL was signed; the next document, or the
\* response
ReadWrite(r) ==
    /\ reqs[r].pc = "rd_write"
    /\ LET q == reqs[r]
           d == q.docs[q.i]
           body == Append(q.body, Signed(q))
       IN  /\ IF Dirty(q.calls) /\ "firestore" \in services
              THEN UpdateField(q.kind, d.id, "signed_urls",
                               CacheAfter(q.calls, CacheOf(d.doc)))
              ELSE UNCHANGED <<productions, uploads, moments>>
           /\ IF q.i < Len(q.docs)
              THEN /\ reqs' = [reqs EXCEPT ![r] = SignStart(q, q.i + 1, body)]
                   /\ resp' = NoResponse
              ELSE /\ reqs' = [reqs EXCEPT ![r] = IdleReq]
                   /\ resp' = [Response(q.kind, 200, "") EXCEPT !.body = body]
    /\ UNCHANGED <<videoOps, jobs, analyses, sent, now, services>>

(***************************************************************************)
(* Archive and unarchive of a production.                                  *)
(***************************************************************************)
ArchiveKind(archived) == IF archived THEN "archive" ELSE "unarchive"

\* archive_production, unarchive_production: the checks
ArchiveBegin(r, id, archived) ==
    /\ Free(r)
    /\ LET kind == ArchiveKind(archived)
       IN  IF "firestore" \notin services
           THEN /\ resp' = Response(kind, 503, "Service not initialized")
                /\ reqs' = reqs
           ELSE IF ~GetProduction(id).exists
           THEN /\ resp' = Response(kind, 404, "")
                /\ reqs' = reqs
           ELSE /\ resp' = NoResponse
                /\ reqs' = [reqs EXCEPT ![r] =
                        [NewReq(kind, id) EXCEPT !.pc = "ar_write"]]
    /\ UNCHANGED <<productions, uploads, videoOps, jobs, analyses>>

\* update_production of the flag, and the response
ArchiveWrite(r) ==
    /\ reqs[r].pc = "ar_write"
    /\ productions' =
          UpdateProduction(reqs[r].id, [archived |-> reqs[r].kind = "archive"])
    /\ resp' = Response(reqs[r].kind, 200,
                        IF reqs[r].kind = "archive" THEN "archived"
                        ELSE "unarchived")
    /\ reqs' = [reqs EXCEPT ![r] = IdleReq]
    /\ UNCHANGED <<uploads, videoOps, jobs, analyses>>

\* ---------------------------------------------------------------------------
\* The reader.  The store holds productions in the states of their life,
\* uploads and a key-moments analysis; the startup has initialised the
\* collaborators up to the first that failed.  One client reads, archives
\* and unarchives, ReadRequests requests in all, while the clock advances
\* through the instants around the expiry of the URLs signed first.
\* ---------------------------------------------------------------------------
ReadRequests == 2

\* the collaborators initialised when the k-th is the first that fails
StartupOutcomes == {{Startup[j] : j \in 1..k} : k \in 0..Len(Startup)}

\* a scene of which a frame has been generated
Framed(scene, thumbnail_url) == Put(scene, "thumbnail_url", thumbnail_url)
ThumbnailUri(sid) == GsUrl(10 + sid)

ScriptedProduction ==
    [DraftProduction EXCEPT
        !.status = "scripted",
        !.scenes = << Framed(NewScene(1), ThumbnailUri(1)), NewScene(2) >>]
GeneratingProduction ==
    [ScriptedProduction EXCEPT
        !.status = "generating",
        !.scenes = << [Framed(NewScene(1), ThumbnailUri(1)) EXCEPT
                          !.status = "completed", !.operation_name = 1,
                          !.video_url = GsUrl(1)],
                      [NewScene(2) EXCEPT
                          !.status = "completed", !.operation_name = 2,
                          !.video_url = HttpUrl(2)] >>]
StitchingProduction ==
    [GeneratingProduction EXCEPT
        !.status = "stitching", !.stitch_job_name = 1,
        !.final_video_url = FinalUri(1),
        !.scenes[2].video_url = GsUrl(2)]
CompletedProduction == [StitchingProduction EXCEPT !.status = "completed"]
\* a production created from the response of an earlier read, signed URLs in
\* the place of the references, that has failed since
FailedProduction ==
    [GeneratingProduction EXCEPT
        !.status = "failed", !.error_message = "failed",
        !.scenes[1].video_url = SignedUrl(GsUrl(1), 0)]

StoredProductions ==
    {DraftProduction, ScriptedProduction, GeneratingProduction,
     StitchingProduction, CompletedProduction, FailedProduction}

\* uploads: one stored by upload_asset; one recorded by upload_init with no
\* size; one with a succeeded variant and its child
SucceededVariant ==
    [resolution |-> "720p", status |-> "succeeded", job_name |-> 1,
     gcs_uri |-> CompressOutput(1, "720p"), child_upload_id |-> 2]
StoredUploads ==
    { << NewUpload("video") >>,
      << [NewUpload("video") EXCEPT !.file_size_bytes = 0] >>,
      << [NewUpload("video") EXCEPT !.compressed_variants = << SucceededVariant >>],
         [NoUpload EXCEPT !.exists = TRUE, !.file_type = "video",
                          !.gcs_uri = CompressOutput(1, "720p"),
                          !.parent_upload_id = 1, !.resolution_label = "720p"] >> }

\* the video of a key-moments analysis: an object of the bucket, or the URL
\* the client gave
StoredMoments == {NewMoments(GsUrl(1)), NewMoments(HttpUrl(1))}

\* the stores the reader finds: two productions, the second one completed,
\* with some uploads and an analysis
Stored(p, ups, m) ==
    [productions |-> << p, CompletedProduction >>, uploads |-> ups,
     moments |-> << m >>]
Stores ==
    {Stored(p, << NewUpload("video") >>, NewMoments(GsUrl(1))) :
        p \in StoredProductions}
    \cup {Stored(CompletedProduction, ups, m) :
             ups \in StoredUploads, m \in StoredMoments}

ReadInit ==
    /\ \E store \in Stores :
          /\ productions = store.productions
          /\ uploads = store.uploads
          /\ moments = store.moments
    /\ services \in StartupOutcomes
    /\ videoOps = << >>
    /\ jobs = << >>
    /\ reqs = [r \in Slots |-> IdleReq]
    /\ resp = NoResponse
    /\ analyses = 0
    /\ sent = 0
    /\ now = 0

\* the instants the clock shows: the start, the last instant at which a URL
\* signed at the start is reused, the first at which it is not, and the
\* instant at which it expires
Instants ==
    {0, SignDuration - RefreshThreshold - 1, SignDuration - RefreshThreshold,
     SignDuration}

Tick ==
    /\ \E t \in Instants : t > now /\ now' = t
    /\ UNCHANGED <<productions, uploads, videoOps, jobs, reqs, resp, analyses,
                   sent, services, moments>>

ReadNext ==
    \/ \E id \in 1..(Len(productions) + 1) :
          Arrives(ReadRequests) /\ ReadBegin("a", "get_production", id, FALSE)
    \/ \E include_archived \in BOOLEAN :
          /\ Arrives(ReadRequests)
          /\ ReadBegin("a", "list_productions", 0, include_archived)
    \/ \E id \in 1..(Len(uploads) + 1) :
          Arrives(ReadRequests) /\ ReadBegin("a", "get_upload", id, FALSE)
    \/ Arrives(ReadRequests) /\ ReadBegin("a", "list_uploads", 0, FALSE)
    \/ \E id \in 1..(Len(moments) + 1) :
          Arrives(ReadRequests) /\ ReadBegin("a", "get_key_moments", id, FALSE)
    \/ Arrives(ReadRequests) /\ ReadBegin("a", "list_key_moments", 0, FALSE)
    \/ \E size \in 0..1 : ReadSize("a", size)
    \/ ReadSign("a")
    \/ ReadWrite("a")
    \/ \E id \in 1..(Len(productions) + 1), archived \in BOOLEAN :
          Arrives(ReadRequests) /\ ArchiveBegin("a", id, archived)
    \/ Within /\ ArchiveWrite("a")
    \/ Tick

ReadSpec == ReadInit /\ [][ReadNext]_vars

\* ---------------------------------------------------------------------------
\* Properties of the reads.
\* ---------------------------------------------------------------------------
\* the calls of resolve_cached_url the read in slot r has made for the
\* document it is signing
CallsMade(r) ==
    IF reqs[r].pc = "rd_write"
    THEN {reqs[r].calls[k] : k \in {j \in 1..Len(reqs[r].calls) :
                                       reqs[r].calls[j].called}}
    ELSE {}

\* the cache holds an entry for the reference that expires more than the
\* threshold after the time t
InReuseWindow(cache, gcs_uri, t) ==
    /\ gcs_uri \in DOMAIN cache
    /\ FromIsoFormat(cache[gcs_uri].expires_at) > t + RefreshThreshold

\* the cache c2 is the cache c1 but for the entry of gcs_uri
OnlyEntryDiffers(c1, c2, gcs_uri) ==
    /\ DOMAIN c2 = DOMAIN c1 \cup {gcs_uri}
    /\ \A u \in DOMAIN c1 : u # gcs_uri => c2[u] = c1[u]

\* C22: a call of resolve_cached_url for a gs:// reference returns the URL of
\* the cached entry, changed = false, signs nothing and leaves the cache as
\* it is when the entry expires more than the refresh threshold after now;
\* otherwise it signs a URL, puts it into the cache with an expiry
\* SignDuration from now, and returns it with changed = true.
C22_ReuseOrRefresh ==
    \A c \in CallsMade("a") :
        IsGs(c.gcs_uri) =>
            IF InReuseWindow(c.before, c.gcs_uri, reqs["a"].at)
            THEN /\ c.url = c.before[c.gcs_uri].url
                 /\ ~c.changed
                 /\ c.signed = 0
                 /\ c.cache = c.before
            ELSE /\ c.changed
                 /\ c.signed = 1
                 /\ c.url = SignedUrl(c.gcs_uri, reqs["a"].at)
                 /\ OnlyEntryDiffers(c.before, c.cache, c.gcs_uri)
                 /\ c.cache[c.gcs_uri].url = c.url
                 /\ FromIsoFormat(c.cache[c.gcs_uri].expires_at) =
                        reqs["a"].at + SignDuration

\* a read reuses, at the last instant of the window, the URL an earlier read
\* signed and stored
C22_Witness ==
    /\ reqs["a"].at = SignDuration - RefreshThreshold - 1
    /\ \E c \in CallsMade("a") :
          /\ IsGs(c.gcs_uri)
          /\ ~c.changed
          /\ c.url = SignedUrl(c.gcs_uri, 0)
          /\ productions[reqs["a"].docs[reqs["a"].i].id].signed_urls = c.before

\* C23: a call of resolve_cached_url with a reference that is not a gs:// URI
\* returns the reference as it is with changed = false, signs nothing and
\* leaves the cache as it is.
C23_PassThrough ==
    \A c \in CallsMade("a") :
        ~IsGs(c.gcs_uri) =>
            /\ c.url = c.gcs_uri
            /\ ~c.changed
            /\ c.signed = 0
            /\ c.cache = c.before

\* the read of a key-moments analysis of a video given by its https URL has
\* called resolve_cached_url with the URL
C23_Witness ==
    /\ reqs["a"].kind \in MomentsReads
    /\ \E c \in CallsMade("a") : c.gcs_uri = HttpUrl(1) /\ c.url = HttpUrl(1)

\* the document the read in slot r is signing, as it is stored
SigningId(r) == reqs[r].docs[reqs[r].i].id
SigningDoc(r) == Store(reqs[r].kind)[SigningId(r)]

\* the documents of a collection after the step, and the document the read in
\* slot r is signing after the step
StoreAfter(kind) ==
    IF kind \in ProductionReads THEN productions'
    ELSE IF kind \in UploadReads THEN uploads'
    ELSE moments'
SignedDoc(r) == StoreAfter(reqs[r].kind)[SigningId(r)]

\* the calls of the read in slot r that signed a URL
Regenerated(r) == {c \in CallsMade(r) : c.changed}

\* the step that ends the sign helper for the document the read in slot r is
\* signing
HelperEnds(r) == reqs[r].pc = "rd_write" /\ reqs'[r] # reqs[r]

\* the step writes the cache of the document, every entry signed in this
\* read in it, if and only if the read has signed an entry
CacheWrittenIffRegenerated(r) ==
    /\ Regenerated(r) # {} <=>
           CacheOf(SignedDoc(r)) # CacheOf(SigningDoc(r))
    /\ \A c \in Regenerated(r) :
          /\ c.gcs_uri \in DOMAIN SignedDoc(r).signed_urls
          /\ SignedDoc(r).signed_urls[c.gcs_uri] = c.cache[c.gcs_uri]
    /\ [StoreAfter(reqs[r].kind) EXCEPT ![SigningId(r)].signed_urls = 0] =
           [Store(reqs[r].kind) EXCEPT ![SigningId(r)].signed_urls = 0]

\* C24, as stated: the read of a document writes its cache if and only if
\* the read has signed an entry, with every signed entry in the written
\* cache, and a read that has signed no entry has written no document.
C24_WritesIffRegeneratedOnly ==
    [][HelperEnds("a") =>
          /\ CacheWrittenIffRegenerated("a")
          /\ Regenerated("a") = {} =>
                /\ UNCHANGED <<productions, uploads, moments>>
                /\ reqs["a"].wrote = {}]_vars

\* C24, amended: the read of a document writes its cache if and only if the
\* read has signed an entry, with every signed entry in the written cache; a
\* read that has signed no entry has written no cache, and no document but
\* for the file_size_bytes of an upload record stored with the size 0.
C24_CacheWrittenIffRegenerated ==
    [][HelperEnds("a") =>
          /\ CacheWrittenIffRegenerated("a")
          /\ Regenerated("a") = {} =>
                /\ UNCHANGED <<productions, uploads, moments>>
                /\ reqs["a"].wrote \subseteq {"file_size_bytes"}
                /\ reqs["a"].wrote # {} =>
                      /\ reqs["a"].kind \in UploadReads
                      /\ reqs["a"].docs[reqs["a"].i].doc.file_size_bytes = 0]_vars

\* a read of an upload has found every entry fresh and has written the size
\* of the file
C24_Witness ==
    /\ reqs["a"].pc = "rd_write"
    /\ reqs["a"].kind \in UploadReads
    /\ CallsMade("a") # {}
    /\ Regenerated("a") = {}
    /\ reqs["a"].wrote = {"file_size_bytes"}
    /\ SigningDoc("a").file_size_bytes = 1

\* C25: no response of get production or list productions holds the
\* signed_urls cache of a production, whatever collaborators the startup has
\* initialised.
C25_CacheNotExposed ==
    (resp.kind \in ProductionReads /\ resp.code = 200) =>
        \A k \in 1..Len(resp.body) : "signed_urls" \notin DOMAIN resp.body[k]

\* the productions the listing in slot r has read
ListedIds(r) == {reqs[r].docs[k].id : k \in 1..Len(reqs[r].docs)}

\* the step writes the flag of an archive or unarchive request
ArchiveWrites(r) == reqs[r].pc = "ar_write" /\ reqs'[r] # reqs[r]

\* the step answers an archive or unarchive request without a write
ArchiveRefused ==
    resp'.kind \in {"archive", "unarchive"} /\ resp'.code # 200 /\ resp' # resp

\* a default listing leaves out the archived productions and no other
DefaultListing(r) ==
    (reqs[r].kind = "list_productions" /\ ~reqs[r].archived) =>
        ListedIds(r) = {id \in 1..Len(productions) : ~productions[id].archived}

\* C30: archive and unarchive write the archived flag of the production and
\* nothing else, whatever the status of the production, and the default
\* listing leaves out the productions whose flag is set, and only them.
C30_ArchiveOnlyFlag ==
    /\ []DefaultListing("a")
    /\ [][/\ ArchiveWrites("a") =>
               /\ productions' =
                     [productions EXCEPT ![reqs["a"].id].archived =
                                             reqs["a"].kind = "archive"]
               /\ UNCHANGED <<uploads, moments, videoOps, jobs>>
          /\ ArchiveRefused =>
               UNCHANGED <<productions, uploads, moments, videoOps, jobs>>]_vars

\* a production that was being stitched has been archived, and a default
\* listing has read the other production only
C30_Witness ==
    /\ productions[1].status = "stitching"
    /\ productions[1].archived
    /\ productions[1] = [StitchingProduction EXCEPT !.archived = TRUE]
    /\ reqs["a"].kind = "list_productions"
    /\ ~reqs["a"].archived
    /\ ListedIds("a") = {2}

\* ---------------------------------------------------------------------------
\* Properties of the variants of an upload.
\* ---------------------------------------------------------------------------
\* the variants of a record for a resolution
VariantsOf(record, resolution) ==
    {k \in 1..Len(record.compressed_variants) :
        record.compressed_variants[k].resolution = resolution}

\* the record has variants for the resolution and all of them have failed
OnlyFailed(record, resolution) ==
    /\ VariantsOf(record, resolution) # {}
    /\ \A k \in VariantsOf(record, resolution) :
          record.compressed_variants[k].status = "failed"

\* no upload has two variants of one resolution
OneVariantPerResolution ==
    \A id \in 1..Len(uploads) : \A res \in Resolutions :
        Cardinality(VariantsOf(uploads[id], res)) <= 1

\* C26: an upload has at most one variant per resolution; a compress request
\* for a resolution whose variant has failed passes the checks, and once the
\* transcoder has created the job the failed variant is replaced by one
\* processing variant that holds the handle of the new job.
C26_OneVariantPerResolution ==
    /\ []OneVariantPerResolution
    /\ [][/\ \A id \in 1..Len(uploads) : \A res \in {"480p", "720p"} :
                (OnlyFailed(uploads[id], res) /\ CompressBegin("a", id, res))
                    => /\ reqs'["a"].pc = "c_dispatch"
                       /\ resp'.code = 0
                       /\ uploads' = uploads
          /\ CompressPersist("a") =>
                LET q == reqs["a"]
                    after == uploads'[q.id]
                IN  /\ Cardinality(VariantsOf(after, q.resolution)) = 1
                    /\ \A k \in VariantsOf(after, q.resolution) :
                          /\ after.compressed_variants[k].status = "processing"
                          /\ after.compressed_variants[k].job_name = q.job
                    /\ resp'.code = 200
                    /\ resp'.job = q.job
                    /\ q.job = Len(jobs)
         ]_vars

\* the variant of a failed job has been replaced by the variant of the job
\* a second compress request has started
C26_Witness ==
    /\ resp.kind = "compress"
    /\ resp.code = 200
    /\ resp.job = 2
    /\ jobs[1].state = "FAILED"
    /\ jobs[1].resolution = jobs[2].resolution
    /\ Len(uploads[1].compressed_variants) = 1
    /\ uploads[1].compressed_variants[1].status = "processing"
    /\ uploads[1].compressed_variants[1].job_name = 2

\* the child records of an upload for a resolution
ChildrenOf(id, resolution) ==
    {c \in 1..Len(uploads) :
        /\ uploads[c].parent_upload_id = id
        /\ uploads[c].resolution_label = resolution}

\* C27: a variant that compress-status has stored as succeeded has exactly
\* one child record, with the source upload as its parent and the output of
\* the variant as its file, to which child_upload_id points; no variant has
\* more than one child record, however the polls interleave.
C27_OneChildPerSucceededVariant ==
    \A id \in 1..Len(uploads) :
        \A k \in 1..Len(uploads[id].compressed_variants) :
            LET v == uploads[id].compressed_variants[k]
                children == ChildrenOf(id, v.resolution)
            IN  /\ Cardinality(children) <= 1
                /\ v.status = "succeeded" =>
                      /\ children = {v.child_upload_id}
                      /\ uploads[v.child_upload_id].gcs_uri = v.gcs_uri

\* ---------------------------------------------------------------------------
\* The surface of the service.  The startup has initialised the
\* collaborators up to the first that failed; the store holds an upload, or
\* a production somewhere in its life.  One client sends SurfaceRequests
\* requests to the endpoints, with the ids of the store and with an id that
\* no production has.
\* ---------------------------------------------------------------------------
SurfaceRequests == 2

\* a production after the analysis, after the videos of its scenes have been
\* stored, and while its stitch job runs
AnalyzedProduction ==
    [DraftProduction EXCEPT
        !.status = "scripted", !.scenes = << NewScene(1), NewScene(2) >>]
RenderedProduction ==
    [AnalyzedProduction EXCEPT
        !.status = "generating",
        !.scenes = [k \in 1..2 |->
                       [NewScene(k) EXCEPT !.status = "completed",
                                           !.operation_name = k,
                                           !.video_url = GsUrl(k)]]]
StitchedProduction ==
    [RenderedProduction EXCEPT
        !.status = "stitching", !.stitch_job_name = 1,
        !.final_video_url = FinalUri(1)]

\* the operations that have made the videos, and the stitch job
EndedOperations ==
    [k \in 1..2 |-> [NewOperation(k) EXCEPT !.state = "video", !.uri = GsUrl(k)]]
StitchJob ==
    [kind |-> "stitch", state |-> "RUNNING", target |-> 1,
     inputs |-> SceneUris(RenderedProduction.scenes),
     edit_list |-> EditList(SceneUris(RenderedProduction.scenes)),
     output_uri |-> StitchOutputUri(1), resolution |-> ""]

SurfaceStores ==
    {[productions |-> << DraftProduction >>, uploads |-> << >>, analyses |-> 0,
      videoOps |-> << >>, jobs |-> << >>],
     [productions |-> << AnalyzedProduction >>, uploads |-> << >>,
      analyses |-> 1, videoOps |-> << >>, jobs |-> << >>],
     [productions |-> << RenderedProduction >>, uploads |-> << >>,
      analyses |-> 1, videoOps |-> EndedOperations, jobs |-> << >>],
     [productions |-> << StitchedProduction >>, uploads |-> << >>,
      analyses |-> 1, videoOps |-> EndedOperations, jobs |-> << StitchJob >>],
     [productions |-> << >>, uploads |-> << NewUpload("video") >>,
      analyses |-> 0, videoOps |-> << >>, jobs |-> << >>]}

SurfaceInit ==
    /\ \E store \in SurfaceStores :
          /\ productions = store.productions
          /\ uploads = store.uploads
          /\ analyses = store.analyses
          /\ videoOps = store.videoOps
          /\ jobs = store.jobs
    /\ services \in StartupOutcomes
    /\ moments = << >>
    /\ reqs = [r \in Slots |-> IdleReq]
    /\ resp = NoResponse
    /\ sent = 0
    /\ now = 0

SurfaceNext ==
    \/ RequestAmong("a", SurfaceRequests, 1)
    \/ \E id \in 1..(Len(productions) + 1) :
          /\ Arrives(SurfaceRequests)
          /\ ReadBegin("a", "get_production", id, FALSE)
    \/ ReadSign("a")
    \/ ReadWrite("a")
    \/ \E id \in 1..(Len(productions) + 1), archived \in BOOLEAN :
          Arrives(SurfaceRequests) /\ ArchiveBegin("a", id, archived)
    \/ Within /\ ArchiveWrite("a")
    \/ Step("a")
    \/ Provider

SurfaceSpec == SurfaceInit /\ [][SurfaceNext]_vars

\* ---------------------------------------------------------------------------
\* Properties of the surface.
\* ---------------------------------------------------------------------------
\* the step is the arrival of a request for the production id at one of the
\* entry points of a production
EntryPoint(r, id) ==
    \/ ReadBegin(r, "get_production", id, FALSE)
    \/ AnalyzeBegin(r, id)
    \/ \E s \in SceneIds : FrameBegin(r, id, s)
    \/ \E s \in SceneIds : VideoBegin(r, id, s)
    \/ \E archived \in BOOLEAN : ArchiveBegin(r, id, archived)
    \/ StartRender(r, id)
    \/ StitchBegin(r, id)
    \/ StitchStatusBegin(r, id)

\* C28: with every collaborator initialised, a request for an id that no
\* production has is answered not found (404) at every entry point of a
\* production; it changes no document and starts no work.
C28_UnknownIdNotFound ==
    [][\A id \in 1..(Len(productions) + 1) :
          (/\ services = Services
           /\ id \notin 1..Len(productions)
           /\ Arrives(SurfaceRequests)
           /\ EntryPoint("a", id))
              => /\ resp'.code = 404
                 /\ reqs' = reqs
                 /\ UNCHANGED <<productions, uploads, moments, videoOps, jobs>>
      ]_vars

\* the collaborators the work of an endpoint calls: the ones it checks, and
\* the video service the kickoff of a render calls
Uses(kind) ==
    IF kind = "render" THEN {"firestore", "video"} ELSE Needs(kind)

\* the step is a step of the request in slot r, and the endpoint of the
\* request
RequestStep(r) == reqs'[r] # reqs[r] \/ sent' # sent
EndpointOf(r) ==
    IF reqs[r].kind # "idle" THEN reqs[r].kind
    ELSE IF reqs'[r].kind # "idle" THEN reqs'[r].kind
    ELSE resp'.kind

\* C29: a request to an endpoint whose work calls a collaborator that the
\* startup has not initialised is answered service unavailable (503) on
\* arrival, and no step of it changes a document or starts a job or an
\* operation.
C29_FailsFast ==
    [][(RequestStep("a") /\ ~(Uses(EndpointOf("a")) \subseteq services))
          => /\ UNCHANGED <<productions, uploads, moments, videoOps, jobs>>
             /\ sent' # sent => (resp'.code = 503 /\ reqs' = reqs)
      ]_vars

\* ---------------------------------------------------------------------------
\* The edit plan of a stitch.
\* ---------------------------------------------------------------------------
\* the uris a job plays, in the order of its edit list: each atom plays the
\* input whose key it names
Played(job) ==
    [a \in 1..Len(job.edit_list) |-> job.inputs[job.edit_list[a].inputs[1] + 1]]

\* the step creates a stitch job
StitchCreated ==
    Len(jobs') > Len(jobs) /\ jobs'[Len(jobs')].kind = "stitch"

\* C31: the job a stitch request creates plays the video_url of every scene
\* of the production as it is stored, one atom per scene in the order of the
\* stored scenes, and its output location is the one of every other stitch
\* job of that production.
C31_EditPlan ==
    [][ StitchCreated =>
          LET job == jobs'[Len(jobs')]
              scenes == productions[job.target].scenes
          IN  /\ Len(job.inputs) = Len(scenes)
              /\ Len(job.edit_list) = Len(scenes)
              /\ \A k \in 1..Len(scenes) :
                    /\ Len(job.edit_list[k].inputs) = 1
                    /\ Played(job)[k] = scenes[k].video_url
              /\ \A j \in 1..Len(jobs) :
                    (jobs[j].kind = "stitch" /\ jobs[j].target = job.target)
                        => jobs[j].output_uri = job.output_uri
      ]_vars

\* a stitch request has succeeded for a production of two scenes with
\* different videos
C31_Witness ==
    /\ resp.kind = "stitch"
    /\ resp.code = 200
    /\ resp.job # 0
    /\ LET job == jobs[resp.job]
       IN  /\ Len(job.inputs) = 2
           /\ job.inputs[1] # job.inputs[2]
           /\ productions[job.target].stitch_job_name = resp.job

\* ---------------------------------------------------------------------------
\* update_scene under concurrency.
\* ---------------------------------------------------------------------------
\* the positions at which a request is about to make the write of an
\* update_scene, and the scene the update names
SceneWritePcs ==
    {"k_mark_write", "k_op_write", "f_write", "f_fail_scene", "v_mark_write",
     "v_prompt_write", "o_scene_write"}
WrittenScene(r) ==
    IF reqs[r].kind = "render" THEN reqs[r].snap[reqs[r].i].id ELSE reqs[r].sid

SceneIdsOf(scenes) == [k \in 1..Len(scenes) |-> scenes[k].id]

\* the request in slot r makes the write of an update_scene, and the
\* production still has the scenes (by id) the update_scene read
SceneWrite(r) ==
    /\ reqs[r].pc \in SceneWritePcs
    /\ reqs'[r] # reqs[r]
    /\ SceneIdsOf(productions[reqs[r].id].scenes) = SceneIdsOf(reqs[r].us)

\* C32: the write of an update_scene leaves the number and order of the
\* stored scenes and every field of the scenes it does not name as they are
\* stored, so that an update another request has made to another scene since
\* the read is not lost or reverted.
C32_OtherScenesKept ==
    [][ \A r \in Slots :
          SceneWrite(r) =>
              LET before == productions[reqs[r].id].scenes
                  after == productions'[reqs[r].id].scenes
              IN  /\ SceneIdsOf(after) = SceneIdsOf(before)
                  /\ \A k \in 1..Len(before) :
                        before[k].id # WrittenScene(r) => after[k] = before[k]
      ]_vars

\* ---------------------------------------------------------------------------
\* The handle an operation poll is made with.
\* ---------------------------------------------------------------------------
\* the poll in slot r writes the store
PollWrites(r) ==
    /\ reqs[r].kind = "op_status"
    /\ reqs'[r] # reqs[r]
    /\ productions' # productions

\* the scene the poll names holds the polled handle in its operation_name
PolledHandleRecorded(r) ==
    \E k \in 1..Len(productions[reqs[r].id].scenes) :
        /\ productions[reqs[r].id].scenes[k].id = reqs[r].sid
        /\ productions[reqs[r].id].scenes[k].operation_name = reqs[r].name

\* C33: an operation poll changes a scene or the production only if the
\* handle it polls is the one the scene it names holds in its stored
\* operation_name.
C33_OnlyRecordedHandle ==
    [][ \A r \in Slots : PollWrites(r) => PolledHandleRecorded(r) ]_vars

\* ---------------------------------------------------------------------------
\* The handle of the stitch job and the status stitching.
\* ---------------------------------------------------------------------------
\* the stored stitch_job_name of the production names a stitch job of it
HoldsStitchHandle(id) ==
    LET name == productions[id].stitch_job_name
    IN  /\ name \in 1..Len(jobs)
        /\ jobs[name].kind = "stitch"
        /\ jobs[name].target = id

\* C34: in every stored state, a production with status stitching holds in
\* stitch_job_name the handle of a stitch job dispatched for it: the status
\* is not stored before the handle.
C34_StitchingHasHandle ==
    \A id \in 1..Len(productions) :
        productions[id].status = "stitching" => HoldsStitchHandle(id)

\* C38: a stitch request for a production with no scenes is rejected and
\* leaves the production as it is, and no stitch job is created with an
\* empty list of inputs.
C38_NoEmptyStitch ==
    [][ /\ \A r \in Slots : \A id \in 1..Len(productions) :
              (Len(productions[id].scenes) = 0 /\ StitchBegin(r, id))
                  => /\ resp'.kind = "stitch"
                     /\ resp'.code \in 400..499
                     /\ reqs' = reqs
                     /\ productions' = productions
        /\ StitchCreated => Len(jobs'[Len(jobs')].inputs) > 0
      ]_vars

\* ---------------------------------------------------------------------------
\* Stitching again.  The store holds a production whose scenes all have
\* their videos, stitched or not yet; clients that do not wait for each
\* other ask for the stitch and poll it, while the transcoder ends its jobs.
\* ---------------------------------------------------------------------------
RestitchRequests == 4   \* stitch requests and stitch polls of the clients
RestitchJobs == 3       \* stitch jobs the transcoder accepts

RestitchInit ==
    /\ \E store \in {s \in SurfaceStores :
                        /\ Len(s.productions) = 1
                        /\ s.productions[1] \in {RenderedProduction,
                                                 StitchedProduction}} :
          /\ productions = store.productions
          /\ uploads = store.uploads
          /\ analyses = store.analyses
          /\ videoOps = store.videoOps
          /\ jobs = store.jobs
    /\ reqs = [r \in Slots |-> IdleReq]
    /\ resp = NoResponse
    /\ sent = 0
    /\ now = 0
    /\ services = Services
    /\ moments = << >>

RestitchNext ==
    \/ \E r \in Slots : Arrives(RestitchRequests) /\ StitchBegin(r, 1)
    \/ \E r \in Slots : Arrives(RestitchRequests) /\ StitchStatusBegin(r, 1)
    \/ \E r \in Slots : Within /\ StitchMark(r)
    \/ \E r \in Slots : Within /\ Len(jobs) < RestitchJobs /\ StitchDispatch(r)
    \/ \E r \in Slots : Within /\ StitchDispatchFails(r)
    \/ \E r \in Slots : Within /\ StitchPersist(r)
    \/ \E r \in Slots : \E st \in JobStates : Within /\ StitchStatusPoll(r, st)
    \/ \E j \in 1..Len(jobs), st \in JobOutcomes : Within /\ TranscoderFinish(j, st)

RestitchSpec == RestitchInit /\ [][RestitchNext]_vars

\* ---------------------------------------------------------------------------
\* Properties of stitching again.
\* ---------------------------------------------------------------------------
\* C35: in every state, a production with status completed holds in
\* stitch_job_name the handle of a job that has succeeded; it is never
\* completed while the job it names is still running.
C35_CompletedJobSucceeded ==
    \A id \in 1..Len(productions) :
        productions[id].status = "completed"
            => /\ productions[id].stitch_job_name \in 1..Len(jobs)
               /\ jobs[productions[id].stitch_job_name].state = "SUCCEEDED"

\* the request in slot r is a stitch poll and takes its last step
StitchPollEnds(r) ==
    reqs[r].kind = "stitch_status" /\ reqs[r].pc = "ss_poll" /\ reqs'[r] # reqs[r]

\* C36: a stitch poll of a production that is completed leaves it completed,
\* whatever state the transcoder reports for the job it names.
C36_CompletedStays ==
    [][ \A r \in Slots :
          (StitchPollEnds(r) /\ productions[reqs[r].id].status = "completed")
              => productions'[reqs[r].id].status = "completed"
      ]_vars

\* ---------------------------------------------------------------------------
\* Compress requests and polls that overlap.
\* ---------------------------------------------------------------------------
\* the request in slot r writes the variants of its upload
VariantsWrite(r) ==
    /\ reqs[r].kind \in {"compress", "compress_status"}
    /\ reqs[r].pc \in {"c_persist", "cs_poll"}
    /\ uploads'[reqs[r].id].compressed_variants
          # uploads[reqs[r].id].compressed_variants

\* the variant is in the list, with its job
HasVariant(variants, v) ==
    \E j \in 1..Len(variants) :
        /\ variants[j].resolution = v.resolution
        /\ variants[j].job_name = v.job_name

\* C37: a compress request or a compress poll that writes the variants of an
\* upload keeps every stored variant of another resolution than the one it
\* asks for, with the handle of its job: the variant another request has
\* added since the read is not lost.
C37_VariantsKept ==
    [][ \A r \in Slots :
          VariantsWrite(r) =>
              LET before == uploads[reqs[r].id].compressed_variants
                  after == uploads'[reqs[r].id].compressed_variants
              IN  \A k \in 1..Len(before) :
                      before[k].resolution # reqs[r].resolution
                          => HasVariant(after, before[k])
      ]_vars

\* ---------------------------------------------------------------------------
\* What a read of a production writes.
\* ---------------------------------------------------------------------------
\* the step is a step of a read of productions in slot r
ProductionReadStep(r) ==
    \/ reqs[r].kind \in ProductionReads /\ reqs'[r] # reqs[r]
    \/ reqs[r].kind = "idle" /\ reqs'[r].kind \in ProductionReads
    \/ reqs[r].kind = "idle" /\ sent' # sent /\ resp'.kind \in ProductionReads

\* the stored document but for its signed_urls
BesidesCache(doc) == [f \in DOMAIN doc \ {"signed_urls"} |-> doc[f]]

====
